---- MODULE Spec2Model ----
(***************************************************************************)
(* Solana-Rent-Collector: the rent-collection engine of                    *)
(* src/rent-collector.ts (RentCollector) and src/wallet-manager.ts         *)
(* (WalletManager), as state machines.                                     *)
(*                                                                         *)
(*   SpecRetry  retryWithBackoff applied to every script of outcomes of    *)
(*              the wrapped call                                           *)
(*   SpecDisc   getTokenAccounts over every way its five queries end       *)
(*   SpecLoad   loadWalletsFromFile over sequences of wallet files         *)
(*   Spec       processAllWallets (processWalletCompletely,                *)
(*              closeTokenAccount, burnAllTokens, transferSolToFeePayer)   *)
(*              and analyzeWallets (processSingleWallet) over a loaded     *)
(*              store and a ledger of token accounts                       *)
(*   SpecLive   Spec where every await returns or fails                    *)
(***************************************************************************)
EXTENDS Integers, Sequences, FiniteSets, TLC

(***************************************************************************)
(* retryWithBackoff (rent-collector.ts)                                    *)
(***************************************************************************)

\* Default parameters of retryWithBackoff.
MaxRetries == 3
BaseDelay == 1000

\* What an error thrown by the wrapped call looks like to line 571: its
\* message contains "429", contains "Too Many Requests", is some other text,
\* or is missing.
ErrorKinds == {"msg429", "msgTooManyRequests", "msgOther", "noMessage"}

\* The values a successful call may return.
CallValues == {"v1", "v2"}

NoValue == "none"
NoError == "none"

\* One invocation of the wrapped call: it returns val, or throws err.
CallOutcomes ==
    [ok : {TRUE}, val : CallValues, err : {NoError}]
        \cup [ok : {FALSE}, val : {NoValue}, err : ErrorKinds]

\* A script: the outcome of the 1st, 2nd, ... invocation of the wrapped call.
CallScripts == [1 .. MaxRetries + 1 -> CallOutcomes]

\* Mutant of IsRateLimit: every error is taken for a rate limit.
IsRateLimitAny(err) == err \in ErrorKinds

\* line 571: error.message && (message.includes('429') ||
\*                             message.includes('Too Many Requests'))
IsRateLimit(err) == err \in {"msg429", "msgTooManyRequests"}

\* Mutant of BackoffDelay: the delay does not grow.
BackoffDelayFlat(baseDelay, attempt) == baseDelay

\* line 572: baseDelay * Math.pow(2, attempt)
BackoffDelay(baseDelay, attempt) == baseDelay * (2 ^ attempt)

\* The loop of retryWithBackoff from iteration `attempt` on; `delays` are the
\* sleeps made so far.  The result records how the wrapper ended (status
\* "return" with the call's value, or "throw" with the error), the number of
\* invocations of the wrapped call and the sleeps in order.
RECURSIVE RetryLoop(_, _, _, _, _)
RetryLoop(fn, maxRetries, baseDelay, attempt, delays) ==
    IF attempt > maxRetries
    THEN [status |-> "throw", value |-> NoValue, error |-> "MaxRetriesExceeded",
          calls |-> attempt, delays |-> delays]
    ELSE LET r == fn[attempt + 1] IN
         IF r.ok
         THEN [status |-> "return", value |-> r.val, error |-> NoError,
               calls |-> attempt + 1, delays |-> delays]
         ELSE IF attempt = maxRetries
         THEN [status |-> "throw", value |-> NoValue, error |-> r.err,
               calls |-> attempt + 1, delays |-> delays]
         ELSE IF IsRateLimit(r.err)
         THEN RetryLoop(fn, maxRetries, baseDelay, attempt + 1,
                        Append(delays, BackoffDelay(baseDelay, attempt)))
         ELSE [status |-> "throw", value |-> NoValue, error |-> r.err,
               calls |-> attempt + 1, delays |-> delays]

RetryWithBackoff(fn, maxRetries, baseDelay) ==
    RetryLoop(fn, maxRetries, baseDelay, 0, <<>>)

NoResult == [status |-> "pending", value |-> NoValue, error |-> NoError,
             calls |-> 0, delays |-> <<>>]

(***************************************************************************)
(* getTokenAccounts (rent-collector.ts): three methods, merged by pubkey   *)
(***************************************************************************)

\* Token accounts of the Token program and of the Token-2022 program.
StdIds == {"A", "B", "C"}
ExtIds == {"E"}
IdOrder == <<"A", "B", "C", "E">>

\* The five remote queries of getTokenAccounts, in the order the code makes
\* them: method 1 for Token and Token-2022 (getTokenAccountsByOwner), method
\* 2 for Token only (getParsedProgramAccounts), method 3 for Token and
\* Token-2022 (getParsedTokenAccountsByOwner).
Queries == {"m1Token", "m1Token2022", "m2Token", "m3Token", "m3Token2022"}

\* The result of one query as retryWithBackoff hands it to getTokenAccounts:
\* status "return" with the items in value, or status "throw".
QueryThrew(r) == r.status # "return"

Items(r) == IF QueryThrew(r) THEN <<>> ELSE r.value

\* Methods 2 and 3 keep an item only if its data is parsed and the parsed
\* owner is the wallet (lines 674-676, 707-709, 735-737): item.valid.
RECURSIVE RawRecords(_)
RawRecords(items) ==
    IF items = <<>> THEN <<>>
    ELSE <<[id |-> Head(items).id, lamports |-> Head(items).lamports,
            data |-> "raw"]>> \o RawRecords(Tail(items))

RECURSIVE ParsedRecords(_)
ParsedRecords(items) ==
    IF items = <<>> THEN <<>>
    ELSE (IF Head(items).valid
          THEN <<[id |-> Head(items).id, lamports |-> Head(items).lamports,
                  data |-> "json"]>>
          ELSE <<>>) \o ParsedRecords(Tail(items))

\* Mutant of Method1Records: the records of the Token query are dropped
\* when the Token-2022 query throws.
Method1RecordsAllOrNothing(q) ==
    IF QueryThrew(q["m1Token"]) \/ QueryThrew(q["m1Token2022"]) THEN <<>>
    ELSE RawRecords(Items(q["m1Token"]))
            \o RawRecords(Items(q["m1Token2022"]))

\* Method 1 (lines 625-651): one try block around both queries; the records
\* of the Token query are pushed before the Token-2022 query is made.
Method1Records(q) ==
    IF QueryThrew(q["m1Token"]) THEN <<>>
    ELSE RawRecords(Items(q["m1Token"]))
            \o (IF QueryThrew(q["m1Token2022"]) THEN <<>>
                ELSE RawRecords(Items(q["m1Token2022"])))

\* Method 2 (lines 654-693): the Token program only.
Method2Records(q) ==
    IF QueryThrew(q["m2Token"]) THEN <<>>
    ELSE ParsedRecords(Items(q["m2Token"]))

\* Method 3 (lines 696-754): one try block around both queries.
Method3Records(q) ==
    IF QueryThrew(q["m3Token"]) THEN <<>>
    ELSE ParsedRecords(Items(q["m3Token"]))
            \o (IF QueryThrew(q["m3Token2022"]) THEN <<>>
                ELSE ParsedRecords(Items(q["m3Token2022"])))

\* Mutant of MapSet: no look-up of the key, every record is added.
MapSetNoDedup(m, rec) == Append(m, rec)

\* uniqueAccounts.set(pubkey, account) on a Map kept as the sequence of its
\* values in insertion order: a known key keeps its place and takes the new
\* value, a new key goes last.
MapSet(m, rec) ==
    IF \E k \in 1 .. Len(m) : m[k].id = rec.id
    THEN [k \in 1 .. Len(m) |-> IF m[k].id = rec.id THEN rec ELSE m[k]]
    ELSE Append(m, rec)

RECURSIVE UniqueAccounts(_, _)
UniqueAccounts(m, recs) ==
    IF recs = <<>> THEN m
    ELSE UniqueAccounts(MapSet(m, Head(recs)), Tail(recs))

\* getTokenAccounts (lines 615-770): allTokenAccounts of the three methods,
\* then the values of the Map built from it.
GetTokenAccounts(q) ==
    UniqueAccounts(<<>>,
        Method1Records(q) \o Method2Records(q) \o Method3Records(q))

\* The queries a run of getTokenAccounts makes: within method 1 and method
\* 3 the Token-2022 query follows the Token query only if that returned.
QueriesMade(q) ==
    {"m1Token", "m2Token", "m3Token"}
        \cup (IF QueryThrew(q["m1Token"]) THEN {} ELSE {"m1Token2022"})
        \cup (IF QueryThrew(q["m3Token"]) THEN {} ELSE {"m3Token2022"})

RecordIds(recs) == {recs[k].id : k \in 1 .. Len(recs)}

\* What the ledger can answer to a query over the accounts ids: any subset,
\* in id order, each item parsed with the wallet as owner (valid) or not.
ItemChoices(ids) ==
    UNION {[S -> BOOLEAN] : S \in SUBSET ids}

ItemsOf(choice) ==
    LET ids == SelectSeq(IdOrder, LAMBDA x : x \in DOMAIN choice)
    IN  [k \in 1 .. Len(ids) |->
            [id |-> ids[k], lamports |-> 2039280, valid |-> choice[ids[k]]]]

Returned(items) ==
    [status |-> "return", value |-> items, error |-> NoError,
     calls |-> 1, delays |-> <<>>]

Threw ==
    [status |-> "throw", value |-> NoValue, error |-> "msgOther",
     calls |-> 1, delays |-> <<>>]

\* Method 1 reads no parsed owner: its items are drawn with valid = TRUE.
PlainResponses(ids) ==
    {Threw} \cup {Returned(ItemsOf([x \in S |-> TRUE])) : S \in SUBSET ids}

ParsedResponses(ids) ==
    {Threw} \cup {Returned(ItemsOf(c)) : c \in ItemChoices(ids)}

NoAccounts == <<[id |-> "none", lamports |-> 0, data |-> "pending"]>>

(***************************************************************************)
(* WalletManager (wallet-manager.ts)                                       *)
(***************************************************************************)

\* The longest wallet file, in trimmed non-empty lines.
MaxFileLines == 3

SectionHeaders == {"PRIVATE KEYS:", "WALLET ADDRESSES:", "PRIVATE KEYS / ADDRESS:"}

\* Keypair.fromSecretKey(bs58.decode(text)).publicKey.toString(): the public
\* key of a secret text, or Invalid when decoding throws.  s1 and s1x are two
\* secret texts of the same public key.
Invalid == "invalid"
PublicKeyOf(text) ==
    CASE text = "s1" -> "P1"
      [] text = "s1x" -> "P1"
      [] text = "s2" -> "P2"
      [] OTHER -> Invalid

\* A trimmed non-empty line: its text, its length, and whether the text
\* contains one of the three header strings (content.includes, lines 34-36).
HeaderLines ==
    {[text |-> "PRIVATE KEYS:", len |-> 13, hasHeader |-> TRUE],
     [text |-> "WALLET ADDRESSES:", len |-> 17, hasHeader |-> TRUE],
     [text |-> "PRIVATE KEYS / ADDRESS:", len |-> 23, hasHeader |-> TRUE]}

SecretLines ==
    {[text |-> t, len |-> 88, hasHeader |-> FALSE] : t \in {"s1", "s1x", "s2", "bad"}}

AddressLines ==
    {[text |-> t, len |-> 44, hasHeader |-> FALSE] : t \in {"P1", "P2"}}

OtherLines ==
    {[text |-> "note", len |-> 10, hasHeader |-> FALSE],
     [text |-> "my PRIVATE KEYS: file", len |-> 21, hasHeader |-> TRUE]}

FileLines == HeaderLines \cup SecretLines \cup AddressLines \cup OtherLines

WalletFiles == UNION {[1 .. n -> FileLines] : n \in 0 .. MaxFileLines}

\* lines 50, 60, 73 and lines 55, 63: the length heuristics.
LooksLikeSecret(line) == line.len >= 80 /\ line.len <= 90
LooksLikeAddress(line) == line.len >= 40 /\ line.len <= 50

\* lines 34-38: the structured format is chosen on the content.
IsStructured(file) == \E k \in 1 .. Len(file) : file[k].hasHeader

\* lines 40-68: the walk over the lines of a structured file.  The result
\* is the pair of lists privateKeys, walletAddresses.
RECURSIVE ParseStructured(_, _, _, _)
ParseStructured(lines, currentSection, privateKeys, walletAddresses) ==
    IF lines = <<>> THEN [privateKeys |-> privateKeys,
                          walletAddresses |-> walletAddresses]
    ELSE LET line == Head(lines) rest == Tail(lines) IN
        IF line.text \in SectionHeaders
        THEN ParseStructured(rest, line.text, privateKeys, walletAddresses)
        ELSE IF currentSection = "PRIVATE KEYS:"
        THEN ParseStructured(rest, currentSection,
                IF LooksLikeSecret(line) THEN Append(privateKeys, line.text)
                ELSE privateKeys,
                walletAddresses)
        ELSE IF currentSection = "WALLET ADDRESSES:"
        THEN ParseStructured(rest, currentSection, privateKeys,
                IF LooksLikeAddress(line) THEN Append(walletAddresses, line.text)
                ELSE walletAddresses)
        ELSE IF currentSection = "PRIVATE KEYS / ADDRESS:"
        THEN IF LooksLikeSecret(line)
             THEN ParseStructured(rest, currentSection,
                    Append(privateKeys, line.text), walletAddresses)
             ELSE IF LooksLikeAddress(line) /\ Len(privateKeys) > 0
             THEN ParseStructured(rest, currentSection, privateKeys,
                    Append(walletAddresses, line.text))
             ELSE ParseStructured(rest, currentSection, privateKeys,
                    walletAddresses)
        ELSE ParseStructured(rest, currentSection, privateKeys, walletAddresses)

RECURSIVE SimpleKeys(_)
SimpleKeys(lines) ==
    IF lines = <<>> THEN <<>>
    ELSE (IF LooksLikeSecret(Head(lines)) THEN <<Head(lines).text>> ELSE <<>>)
            \o SimpleKeys(Tail(lines))

\* lines 30-75
ParseFile(file) ==
    IF IsStructured(file) THEN ParseStructured(file, "", <<>>, <<>>)
    ELSE [privateKeys |-> SimpleKeys(file), walletAddresses |-> <<>>]

\* Mutant of ExistingEntries: the Map starts empty at every load.
ExistingEntriesNone(store) == <<>>

\* lines 90-93: the Map uniqueWallets, as the sequence of its values in
\* insertion order, filled from the wallets already in the store.
ExistingEntries(store) ==
    [k \in 1 .. Len(store) |->
        [privateKey |-> store[k].privateKey, publicKey |-> store[k].publicKey]]

HasPublicKey(m, publicKey) == \E k \in 1 .. Len(m) : m[k].publicKey = publicKey
HasPrivateKey(m, privateKey) == \E k \in 1 .. Len(m) : m[k].privateKey = privateKey

\* lines 101 and 111-112: the key is dropped when its public key, or its
\* text, is already in the Map.
IsDuplicate(m, privateKey, publicKey) ==
    HasPublicKey(m, publicKey) \/ HasPrivateKey(m, privateKey)

\* Mutant of UniqueWalletsSet: the new entry comes first.
UniqueWalletsSetFirst(m, entry) == <<entry>> \o m

\* uniqueWallets.set(publicKey, { privateKey, publicKey }) (line 118) for a
\* key that is not in the Map: a Map keeps its entries in insertion
\* order, so the new entry is the last one.
UniqueWalletsSet(m, entry) == Append(m, entry)

\* lines 95-123: the loop over privateKeys.  ok = FALSE when a key does not
\* decode (the loop throws at that key).
RECURSIVE DecodeLoop(_, _, _)
DecodeLoop(privateKeys, uniqueWallets, duplicates) ==
    IF privateKeys = <<>>
    THEN [ok |-> TRUE, uniqueWallets |-> uniqueWallets, duplicates |-> duplicates]
    ELSE LET privateKey == Head(privateKeys)
             publicKey == PublicKeyOf(privateKey) IN
        IF publicKey = Invalid
        THEN [ok |-> FALSE, uniqueWallets |-> uniqueWallets,
              duplicates |-> duplicates]
        ELSE IF IsDuplicate(uniqueWallets, privateKey, publicKey)
        THEN DecodeLoop(Tail(privateKeys), uniqueWallets,
                        Append(duplicates, publicKey))
        ELSE DecodeLoop(Tail(privateKeys),
                UniqueWalletsSet(uniqueWallets,
                       [privateKey |-> privateKey, publicKey |-> publicKey]),
                duplicates)

\* lines 129-147: every entry of the Map becomes a record with zeroed
\* balance, rentExemptBalance, rentAmount and canClose = false.
FreshWallets(uniqueWallets) ==
    [k \in 1 .. Len(uniqueWallets) |->
        [privateKey |-> uniqueWallets[k].privateKey,
         publicKey |-> uniqueWallets[k].publicKey,
         balance |-> 0, rentExemptBalance |-> 0, rentAmount |-> 0,
         canClose |-> FALSE]]

\* privateKeys.indexOf(privateKey) (line 131): the place of the first equal
\* element counted from 0, or -1.
IndexOf(list, x) ==
    IF \E k \in 1 .. Len(list) : list[k] = x
    THEN (CHOOSE k \in 1 .. Len(list) :
            list[k] = x /\ \A j \in 1 .. k - 1 : list[j] # x) - 1
    ELSE -1

\* Mutant of Mismatch: a provided address is never found to differ.
MismatchNever(providedAddress, publicKey) == FALSE

\* if (providedAddress !== publicKey) (line 134)
Mismatch(providedAddress, publicKey) == providedAddress # publicKey

\* lines 129-137: the warnings of the cross-check, one for every entry of
\* the Map whose provided address differs from its public key.  An entry
\* whose key is not in the file has index -1 and walletAddresses[-1] is
\* undefined.
RECURSIVE CrossCheck(_, _, _)
CrossCheck(uniqueWallets, privateKeys, walletAddresses) ==
    IF uniqueWallets = <<>> THEN <<>>
    ELSE LET entry == Head(uniqueWallets)
             index == IndexOf(privateKeys, entry.privateKey)
             providedAddress ==
                IF index >= 0 /\ index < Len(walletAddresses)
                THEN walletAddresses[index + 1] ELSE "undefined"
         IN  (IF Len(walletAddresses) > index
                  /\ Mismatch(providedAddress, entry.publicKey)
              THEN <<[providedAddress |-> providedAddress,
                      publicKey |-> entry.publicKey]>>
              ELSE <<>>)
                \o CrossCheck(Tail(uniqueWallets), privateKeys,
                              walletAddresses)

\* Mutant of NoPrivateKeys: a file without keys is accepted.
NoPrivateKeysAccepted(privateKeys) == FALSE

\* if (privateKeys.length === 0) (lines 77-79)
NoPrivateKeys(privateKeys) == Len(privateKeys) = 0

\* loadWalletsFromFile(filePath, clearExisting) on the store `store`: how the
\* call ends (status "return" or "throw"), the store it leaves (wallets) and
\* the array it returns (returned).
LoadWalletsFromFile(store, file, clearExisting) ==
    LET parsed == ParseFile(file)
        cleared == IF clearExisting THEN <<>> ELSE store
        decoded == DecodeLoop(parsed.privateKeys, ExistingEntries(cleared),
                              <<>>)
    IN  IF NoPrivateKeys(parsed.privateKeys)
        THEN [status |-> "throw", error |-> "NoValidPrivateKeys",
              wallets |-> store, returned |-> <<>>,
              duplicates |-> <<>>, warnings |-> <<>>]
        ELSE IF ~decoded.ok
        THEN [status |-> "throw", error |-> "InvalidPrivateKey",
              wallets |-> cleared, returned |-> <<>>,
              duplicates |-> decoded.duplicates, warnings |-> <<>>]
        ELSE [status |-> "return", error |-> NoError,
              wallets |-> FreshWallets(decoded.uniqueWallets),
              returned |-> FreshWallets(decoded.uniqueWallets),
              duplicates |-> decoded.duplicates,
              warnings |-> CrossCheck(decoded.uniqueWallets,
                                      parsed.privateKeys,
                                      parsed.walletAddresses)]

\* updateWalletInfo (wallet-manager.ts lines 166-176), index from 0.
UpdateWalletInfo(store, index, balance, rentExemptBalance, rentAmount, canClose) ==
    IF index >= 0 /\ index < Len(store)
    THEN [store EXCEPT ![index + 1] =
            [@ EXCEPT !.balance = balance,
                      !.rentExemptBalance = rentExemptBalance,
                      !.rentAmount = rentAmount,
                      !.canClose = canClose]]
    ELSE store

\* Mutant of WriteBack: canClose is left false.
WriteBackNotClosable(store, index, walletBalance, totalRentToCollect) ==
    UpdateWalletInfo(store, index, walletBalance, 0, totalRentToCollect, FALSE)

\* processSingleWallet line 927: this.walletManager.updateWalletInfo(
\* walletIndex, walletBalance, 0, totalRentToCollect, totalRentToCollect > 0)
WriteBack(store, index, walletBalance, totalRentToCollect) ==
    UpdateWalletInfo(store, index, walletBalance, 0, totalRentToCollect, totalRentToCollect > 0)

\* What processSingleWallet can have found for a wallet when it writes
\* back: its balance and the rent to collect, an empty wallet's or those
\* of a wallet with one token account.
Discoveries ==
    {[walletBalance |-> 0, totalRentToCollect |-> 0],
     [walletBalance |-> 500000, totalRentToCollect |-> 2039280]}

\* ipcMain.handle('load-wallets') with one file path (main.ts lines 157-175):
\* totalNewWallets += newWallets.length for the array the call returned;
\* a call that threw is caught and adds nothing.
TotalNewWallets(call) ==
    IF call.status = "return" THEN Len(call.returned) ELSE 0

NoLoad == [status |-> "none"]

(***************************************************************************)
(* RentCollector: processAllWallets and processWalletCompletely            *)
(***************************************************************************)

\* The most wallets in the store at the start of a run.
MaxWallets == 2

\* The secrets of the wallets of a run, in load order.
KeyRing == <<"s1", "s2", "k3", "k4">>

CollectorPublicKey(text) ==
    CASE text = "k3" -> "P3"
      [] text = "k4" -> "P4"
      [] OTHER -> PublicKeyOf(text)

\* A token account on the ledger: its lamports, its token amount (offset 64
\* of its data) and the program that owns it.
TokenAccount(id, lamports, amount, program) ==
    [id |-> id, lamports |-> lamports, amount |-> amount, program |-> program]

\* What a wallet holds on the ledger when a run starts: its token accounts
\* and its native lamports.  HoldingsX and HoldingsY are the two wallets of
\* the end-to-end scenario; HoldingsZ has an account without lamports, a
\* Token-2022 account and a native balance of 0.00005 SOL; HoldingsV has
\* two accounts to close.
HoldingsX ==
    [accounts |-> <<TokenAccount("A", 2039280, 1000, "Token")>>, native |-> 0]

HoldingsY == [accounts |-> <<>>, native |-> 500000]

HoldingsZ ==
    [accounts |-> <<TokenAccount("A", 0, 0, "Token"),
                    TokenAccount("E", 2039280, 0, "Token2022")>>,
     native |-> 50000]

\* Two accounts with lamports, the second with tokens.
HoldingsV ==
    [accounts |-> <<TokenAccount("A", 2039280, 0, "Token"),
                    TokenAccount("B", 2039280, 1000, "Token")>>,
     native |-> 0]

WalletHoldings == {HoldingsX, HoldingsY, HoldingsZ, HoldingsV}

\* The outcome of one invocation of a remote call that answers `val`.
Answers(val) == [ok |-> TRUE, val |-> val, err |-> NoError]
Fails(err) == [ok |-> FALSE, val |-> NoValue, err |-> err]

\* The scripts of a remote call of the pipeline: it answers at once, answers
\* after one rate-limited attempt, fails with another error, or is rate
\* limited on every attempt.
ScriptKinds == {"answers", "rateLimitedOnce", "fails", "rateLimitedAlways"}

RemoteScript(kind, val) ==
    [a \in 1 .. MaxRetries + 1 |->
        CASE kind = "answers" -> Answers(val)
          [] kind = "rateLimitedOnce" ->
                IF a = 1 THEN Fails("msg429") ELSE Answers(val)
          [] kind = "fails" -> Fails("msgOther")
          [] OTHER -> Fails("msgTooManyRequests")]

\* this.retryWithBackoff(async () => call) with the default parameters.
Wrapped(script) == RetryWithBackoff(script, MaxRetries, BaseDelay)

\* await call, not wrapped in retryWithBackoff: the first invocation decides.
Unwrapped(script) ==
    IF script[1].ok
    THEN [status |-> "return", value |-> script[1].val, error |-> NoError,
          calls |-> 1, delays |-> <<>>]
    ELSE [status |-> "throw", value |-> NoValue, error |-> script[1].err,
          calls |-> 1, delays |-> <<>>]

\* The items the ledger answers to a token-account query for one program.
RECURSIVE LedgerItems(_, _)
LedgerItems(accts, program) ==
    IF accts = <<>> THEN <<>>
    ELSE (IF Head(accts).program = program
          THEN <<[id |-> Head(accts).id, lamports |-> Head(accts).lamports,
                  valid |-> TRUE]>>
          ELSE <<>>) \o LedgerItems(Tail(accts), program)

QueryProgram(x) ==
    IF x \in {"m1Token2022", "m3Token2022"} THEN "Token2022" ELSE "Token"

QueryMethod(x) ==
    CASE x \in {"m1Token", "m1Token2022"} -> 1
      [] x = "m2Token" -> 2
      [] OTHER -> 3

\* The ways the queries of one getTokenAccounts call go: the queries of one
\* method all follow the same kind of script.
DiscoveryKinds == [1 .. 3 -> {"answers", "fails"}]
                    \cup {[m \in 1 .. 3 |-> "rateLimitedOnce"],
                          [m \in 1 .. 3 |-> "rateLimitedAlways"]}

QueryRun(accts, kinds) ==
    [x \in Queries |->
        Wrapped(RemoteScript(kinds[QueryMethod(x)],
                             LedgerItems(accts, QueryProgram(x))))]

QueryRuns(accts) == {QueryRun(accts, kinds) : kinds \in DiscoveryKinds}

NoThrow == "none"

\* What a remote call that followed the script `kind` and ended with r
\* leaves to the step that made it: "rateLimitedOnce" when the call threw
\* on a single rate-limited attempt, "other" when it threw otherwise.
ThrownScript(kind, r) ==
    IF r.status # "throw" THEN NoThrow
    ELSE IF kind = "rateLimitedOnce" THEN kind ELSE "other"

\* An attempt of the remote call that ended with r failed.
AttemptFailed(r) == r.status = "throw" \/ r.calls > 1

\* connection.getAccountInfo(pubkey): the account, or NoAccount (null).
NoAccount == TokenAccount("none", 0, 0, "none")

AccountInfo(accts, id) ==
    IF \E j \in 1 .. Len(accts) : accts[j].id = id
    THEN accts[CHOOSE j \in 1 .. Len(accts) : accts[j].id = id]
    ELSE NoAccount

\* The ledger after the close of account id: the account is gone.
WithoutAccount(accts, id) == SelectSeq(accts, LAMBDA a : a.id # id)

\* The ledger after a burn of the whole token amount of account id.
Burned(accts, id) ==
    [j \in 1 .. Len(accts) |->
        IF accts[j].id = id THEN [accts[j] EXCEPT !.amount = 0] ELSE accts[j]]

\* The rent-exemption thresholds the ledger may answer.
RentExemptions == {0, 2039280, 9000000}

\* Mutant of CanCloseAccount: only the excess over the threshold counts.
CanCloseAccountAboveRent(balance, rentExemptBalance) ==
    balance > rentExemptBalance

\* canCloseAccount (lines 597-601)
CanCloseAccount(balance, rentExemptBalance) == balance > 0

\* calculateRentAmount (lines 606-610)
CalculateRentAmount(balance, rentExemptBalance) == balance

\* (lamports / LAMPORTS_PER_SOL).toFixed(4), in units of 0.0001 SOL.
ToFixed4(lamports) == (lamports + 50000) \div 100000

\* Mutant of ProgressEvent: current is the index i, counted from 0.
ProgressEventZeroBased(current, total, wallet, status) ==
    [current |-> current - 1, total |-> total, wallet |-> wallet,
     status |-> status]

ProgressEvent(current, total, wallet, status) ==
    [current |-> current, total |-> total, wallet |-> wallet, status |-> status]

Collected(lamports) == <<"Collected", ToFixed4(lamports), "SOL">>

\* README, Safety Features: "Minimum rent threshold (0.0001 SOL)", in
\* lamports (LAMPORTS_PER_SOL = 1,000,000,000).
MinimumRentThreshold == 100000

NoTx == [kind |-> "none"]
NoSummary == [totalWallets |-> -1]

VARIABLES
    rFn,        \* the script of the wrapped call handed to retryWithBackoff
    rResult,    \* NoResult, or what retryWithBackoff ended with
    dQuery,     \* what each query of getTokenAccounts ends with
    dAccounts,  \* NoAccounts, or what getTokenAccounts returned
    wallets,    \* WalletManager.wallets
    load,       \* NoLoad, or the loadWalletsFromFile call that just ended
    feePayerKeypair,     \* RentCollector.feePayerKeypair, or NoKeypair (null)
    pc,                  \* the await the running method is suspended at
    walletIndex,         \* i of processAllWallets, walletIndex of the rest
    successfulWallets,   \* locals of processAllWallets
    failedWallets,
    totalRecovered,
    results,
    summary,             \* NoSummary, or what processAllWallets returned
    tokenAccounts,       \* tokenAccounts of the method that is running
    accountIndex,        \* the position of its for-of loop over tokenAccounts
    tokenAccountsClosed, \* locals of processWalletCompletely
    rentRecovered,
    solTransferred,
    updatedBalance,
    transaction,         \* NoTx, or the transaction being built or sent
    walletBalance,       \* locals of processSingleWallet
    totalRentToCollect,
    analyzedWallets,     \* NotAnalyzed, or what analyzeWallets has collected
    ledger,              \* per wallet: its token accounts and native lamports
    feePayerReceived,    \* the lamports the ledger has moved to the fee payer
    events,              \* the calls of progressCallback, in order
    confirmed,           \* the confirmed transactions of the run, in order
    decision,            \* the last canCloseAccount call and what it answered
    walletLog,           \* per wallet: what it held at the start, how its
                         \* pipeline and its sweep ended
    remoteFailed,        \* has an attempt of a remote call of the run failed
    lastThrow,           \* the script of the remote call that threw in the
                         \* collector's last step, or NoThrow
    storedRpcUrl,        \* main.ts storedRpcUrl, or NoUrl (null)
    storedFeePayerKey,   \* main.ts storedFeePayerKey, or NoKey (null)
    connection,          \* the endpoint the collector was constructed with
    progressCallback,    \* the statuses at which the progressCallback handed
                         \* to processAllWallets throws
    rentCollector,       \* main.ts rentCollector: NoCollector (null), the
                         \* collector of the run ("this") or a later one
    otherRun             \* NoRun, or the method a request that arrived
                         \* during the run is executing

retryVars == <<rFn, rResult>>
discVars == <<dQuery, dAccounts>>
storeVars == <<wallets, load>>
loopVars == <<walletIndex, successfulWallets, failedWallets, totalRecovered, results,
              summary>>
walletVars == <<tokenAccounts, accountIndex, tokenAccountsClosed, rentRecovered,
                solTransferred, updatedBalance, transaction>>
analysisVars == <<walletBalance, totalRentToCollect, analyzedWallets>>
chainVars == <<ledger, feePayerReceived, confirmed>>
collectorVars == <<feePayerKeypair, pc, loopVars, walletVars, analysisVars,
                   chainVars, events, decision, walletLog, remoteFailed,
                   lastThrow>>

mainVars == <<storedRpcUrl, storedFeePayerKey, connection, progressCallback,
              rentCollector, otherRun>>

vars == <<retryVars, discVars, storeVars, collectorVars, mainVars>>

NoKeypair == "null"
NotAnalyzed == <<"none">>
NoDecision == [balance |-> -1]
NoLog == <<>>

\* new RentCollector(rpcUrl, walletManager) (lines 533-537) with nothing
\* running.
CollectorIdle ==
    /\ feePayerKeypair = NoKeypair
    /\ pc = "idle"
    /\ walletIndex = 0
    /\ successfulWallets = 0
    /\ failedWallets = 0
    /\ totalRecovered = 0
    /\ results = <<>>
    /\ summary = NoSummary
    /\ tokenAccounts = <<>>
    /\ accountIndex = 1
    /\ tokenAccountsClosed = 0
    /\ rentRecovered = 0
    /\ solTransferred = 0
    /\ updatedBalance = 0
    /\ transaction = NoTx
    /\ walletBalance = 0
    /\ totalRentToCollect = 0
    /\ analyzedWallets = NotAnalyzed
    /\ feePayerReceived = 0
    /\ events = <<>>
    /\ confirmed = <<>>
    /\ decision = NoDecision
    /\ remoteFailed = FALSE
    /\ lastThrow = NoThrow

NoWalletsRun ==
    /\ CollectorIdle
    /\ ledger = <<>>
    /\ walletLog = NoLog

DiscIdle ==
    /\ dQuery = [x \in Queries |-> Threw]
    /\ dAccounts = NoAccounts

RetryIdle == rFn = [k \in 1 .. MaxRetries + 1 |->
                       [ok |-> TRUE, val |-> "v1", err |-> NoError]]
             /\ rResult = NoResult

NoUrl == "null"
NoKey == "null"

\* let rentCollector: RentCollector | null = null (main.ts line 28)
NoCollector == "null"

\* No request other than the one of the run is being served.
NoRun == "none"

\* The three kinds of status processAllWallets reports (lines 1366, 1384
\* and 1403).
StatusKinds == {"Processing wallet...", "Collected", "Failed to process"}

\* A progressCallback is modelled by the kinds of status at which it throws:
\* the callback of main.ts lines 240-243 with a live event.sender throws at
\* none.
Returning == {}

\* The callbacks processAllWallets is called with.
Callbacks == SUBSET StatusKinds

\* progressCallback({..., status}) throws (lines 1361-1368, 1378-1386 and
\* 1397-1405).
CallbackThrows(kind) == kind \in progressCallback

\* main.ts lines 30-31 and 113-114 with an empty configuration file, and
\* no collector constructed by a handler yet.
MainIdle ==
    /\ storedRpcUrl = NoUrl
    /\ storedFeePayerKey = NoKey
    /\ connection = NoUrl
    /\ progressCallback = Returning
    /\ rentCollector = NoCollector
    /\ otherRun = NoRun

\* private wallets: WalletInfo[] = [] (wallet-manager.ts line 8)
StoreEmpty ==
    /\ wallets = <<>>
    /\ load = NoLoad

InitRetry ==
    /\ rFn \in CallScripts
    /\ rResult = NoResult
    /\ DiscIdle
    /\ StoreEmpty
    /\ NoWalletsRun
    /\ MainIdle

\* await this.retryWithBackoff(fn) with the default parameters.
RetryCall ==
    /\ rResult = NoResult
    /\ rResult' = RetryWithBackoff(rFn, MaxRetries, BaseDelay)
    /\ UNCHANGED <<mainVars, rFn, discVars, storeVars, collectorVars>>

NextRetry == RetryCall

SpecRetry == InitRetry /\ [][NextRetry]_vars

\* An error carries a rate-limit signature: an explicit rate-limit status
\* or message (spec 4.4).
RateLimitSignature(err) == err = "msg429" \/ err = "msgTooManyRequests"

\* The first k invocations all fail with a rate-limit signature.
RateLimitedUpTo(fn, k) ==
    \A j \in 1 .. k : ~fn[j].ok /\ RateLimitSignature(fn[j].err)

\* C9: a call that fails twice with a rate-limit signature and succeeds on
\* the third invocation returns that invocation's result, is invoked exactly
\* three times, and sleeps exactly twice, the second sleep strictly longer
\* than the first.
C9_RetryThenSuccess ==
    (rResult # NoResult /\ RateLimitedUpTo(rFn, 2) /\ rFn[3].ok) =>
        /\ rResult.status = "return"
        /\ rResult.value = rFn[3].val
        /\ rResult.calls = 3
        /\ Len(rResult.delays) = 2
        /\ rResult.delays[2] > rResult.delays[1]

C9_Witness ==
    /\ rResult # NoResult
    /\ RateLimitedUpTo(rFn, 2)
    /\ rFn[3].ok
    /\ rResult.status = "return"
    /\ rResult.delays = <<1000, 2000>>

\* C10: when the k-th invocation (any k) fails without a rate-limit
\* signature, all earlier ones having been rate limited, the wrapper throws
\* that very error after exactly k invocations and no sleep follows the
\* failure (only the k-1 sleeps of the earlier retries were made).
C10_NonRateLimitPropagates ==
    \A k \in 1 .. MaxRetries + 1 :
        (rResult # NoResult /\ RateLimitedUpTo(rFn, k - 1)
            /\ ~rFn[k].ok /\ ~RateLimitSignature(rFn[k].err)) =>
            /\ rResult.status = "throw"
            /\ rResult.error = rFn[k].err
            /\ rResult.calls = k
            /\ Len(rResult.delays) = k - 1

C10_Witness ==
    /\ rResult # NoResult
    /\ RateLimitedUpTo(rFn, 1)
    /\ ~rFn[2].ok
    /\ rFn[2].err = "msgOther"
    /\ rResult.status = "throw"
    /\ rResult.calls = 2
    /\ rResult.delays = <<1000>>

\* C11: when every invocation fails with a rate-limit signature, the
\* wrapper throws, after MaxRetries + 1 invocations, an error of its own
\* (RetryExhaustedError) that is none of the errors of the wrapped call.
C11_RetryExhaustedError ==
    (rResult # NoResult /\ RateLimitedUpTo(rFn, MaxRetries + 1)) =>
        /\ rResult.status = "throw"
        /\ rResult.calls = MaxRetries + 1
        /\ rResult.error = "RetryExhaustedError"
        /\ rResult.error \notin ErrorKinds

(***************************************************************************)
(* SpecDisc: getTokenAccounts over every answer of the five queries        *)
(***************************************************************************)

QueryResults(a, b, c, d, e) ==
    [x \in Queries |->
        CASE x = "m1Token" -> a
          [] x = "m1Token2022" -> b
          [] x = "m2Token" -> c
          [] x = "m3Token" -> d
          [] OTHER -> e]

InitDisc ==
    /\ RetryIdle
    /\ \E a \in PlainResponses(StdIds), b \in PlainResponses(ExtIds),
          c \in ParsedResponses(StdIds), d \in ParsedResponses(StdIds),
          e \in ParsedResponses(ExtIds) :
            dQuery = QueryResults(a, b, c, d, e)
    /\ dAccounts = NoAccounts
    /\ StoreEmpty
    /\ NoWalletsRun
    /\ MainIdle

\* await this.getTokenAccounts(walletPublicKey)
Discover ==
    /\ dAccounts = NoAccounts
    /\ dAccounts' = GetTokenAccounts(dQuery)
    /\ UNCHANGED <<mainVars, dQuery, retryVars, storeVars, collectorVars>>

NextDisc == Discover

SpecDisc == InitDisc /\ [][NextDisc]_vars

\* A method failed: one of the queries it made threw (the code logs
\* "Method n failed").
MethodFailed(q, first, second) ==
    QueryThrew(q[first]) \/ QueryThrew(q[second])

ValidIds(r) ==
    {r.value[k].id : k \in {j \in 1 .. Len(Items(r)) : r.value[j].valid}}

\* The ids of the records a method returned, a failed method counting as
\* empty.
MethodIds(q, first, second) ==
    IF MethodFailed(q, first, second) THEN {}
    ELSE ValidIds(q[first]) \cup ValidIds(q[second])

\* The ids of the records of one query: those of a query that was made and
\* returned, none otherwise.
QueryIds(q, x) ==
    IF x \in QueriesMade(q) /\ ~QueryThrew(q[x]) THEN ValidIds(q[x]) ELSE {}

NoDuplicateIds(recs) ==
    \A j, k \in 1 .. Len(recs) : recs[j].id = recs[k].id => j = k

\* C7 as claimed: the returned ids are exactly the union of the ids returned
\* by the methods that succeeded (a failed method counting as empty), each
\* id once.
C7_UnionOfSucceededStrategies ==
    dAccounts # NoAccounts =>
        /\ RecordIds(dAccounts) =
              MethodIds(dQuery, "m1Token", "m1Token2022")
                \cup MethodIds(dQuery, "m2Token", "m2Token")
                \cup MethodIds(dQuery, "m3Token", "m3Token2022")
        /\ NoDuplicateIds(dAccounts)

\* C7 amended: the returned ids are exactly the union of the ids of the
\* records of every query that was made and returned (so a method whose
\* Token query returned and whose Token-2022 query threw still gives its
\* Token records), each id once.
C7_UnionOfReturnedQueries ==
    dAccounts # NoAccounts =>
        /\ RecordIds(dAccounts) = UNION {QueryIds(dQuery, x) : x \in Queries}
        /\ NoDuplicateIds(dAccounts)

\* Method 1 gives {A,B}, method 2 gives {B,C}, method 3 fails: A, B, C.
C7_Witness ==
    /\ dAccounts # NoAccounts
    /\ MethodIds(dQuery, "m1Token", "m1Token2022") = {"A", "B"}
    /\ ~QueryThrew(dQuery["m1Token2022"])
    /\ MethodIds(dQuery, "m2Token", "m2Token") = {"B", "C"}
    /\ ~QueryThrew(dQuery["m2Token"])
    /\ QueryThrew(dQuery["m3Token"])
    /\ [k \in 1 .. Len(dAccounts) |-> dAccounts[k].id] = <<"A", "B", "C">>

(***************************************************************************)
(* SpecLoad: the wallet store under any sequence of loadWalletsFromFile    *)
(***************************************************************************)

InitLoad ==
    /\ RetryIdle
    /\ DiscIdle
    /\ StoreEmpty
    /\ NoWalletsRun
    /\ MainIdle

\* await walletManager.loadWalletsFromFile(filePath, clearExisting)
LoadFile ==
    /\ load = NoLoad
    /\ \E file \in WalletFiles, clearExisting \in BOOLEAN :
        LET r == LoadWalletsFromFile(wallets, file, clearExisting) IN
        /\ wallets' = r.wallets
        /\ load' = [status |-> r.status, error |-> r.error, file |-> file,
                    clearExisting |-> clearExisting, before |-> wallets,
                    returned |-> r.returned, duplicates |-> r.duplicates,
                    warnings |-> r.warnings]
    /\ UNCHANGED <<mainVars, retryVars, discVars, collectorVars>>

\* The caller takes the result (or the error) of the call.
LoadDone ==
    /\ load # NoLoad
    /\ load' = NoLoad
    /\ UNCHANGED <<mainVars, wallets, retryVars, discVars, collectorVars>>

\* processSingleWallet line 927, between two loads: the discovery phase
\* writes what it found for the wallet at walletIndex (an index of the
\* store, or the one past its end) back to the store.
StoreWriteBack ==
    /\ load = NoLoad
    /\ \E index \in 0 .. Len(wallets), d \in Discoveries :
        wallets' = WriteBack(wallets, index, d.walletBalance,
                             d.totalRentToCollect)
    /\ UNCHANGED <<mainVars, load, retryVars, discVars, collectorVars>>

NextLoad == LoadFile \/ LoadDone \/ StoreWriteBack

SpecLoad == InitLoad /\ [][NextLoad]_vars

\* The texts of the lines of a file that look like secrets, in file order,
\* and the public keys they decode to.
SecretTexts(file) ==
    {file[k].text : k \in {j \in 1 .. Len(file) : LooksLikeSecret(file[j])}}

PublicKeys(store) == {store[k].publicKey : k \in 1 .. Len(store)}

SecretOf(store, publicKey) ==
    store[CHOOSE k \in 1 .. Len(store) : store[k].publicKey = publicKey].privateKey

\* The first key of the list with the given public key.
FirstWith(privateKeys, publicKey) ==
    privateKeys[CHOOSE k \in 1 .. Len(privateKeys) :
        /\ PublicKeyOf(privateKeys[k]) = publicKey
        /\ \A j \in 1 .. k - 1 : PublicKeyOf(privateKeys[j]) # publicKey]

\* C6: the store never holds two records of one public key; and a load
\* without clearExisting that returns leaves exactly the public keys the
\* store had plus those of the file's keys, every public key the store had
\* keeping the secret it was first loaded with and every new one taking the
\* first secret of the file that decodes to it (later ones are dropped, the
\* call does not throw for them).
C6_OneRecordPerPublicKey ==
    /\ \A j, k \in 1 .. Len(wallets) :
          wallets[j].publicKey = wallets[k].publicKey => j = k
    /\ (load # NoLoad /\ load.status = "return" /\ ~load.clearExisting) =>
          LET keys == ParseFile(load.file).privateKeys
              filePublicKeys == {PublicKeyOf(keys[k]) : k \in 1 .. Len(keys)}
          IN  /\ PublicKeys(wallets) = PublicKeys(load.before) \cup filePublicKeys
              /\ \A p \in PublicKeys(load.before) :
                    SecretOf(wallets, p) = SecretOf(load.before, p)
              /\ \A p \in filePublicKeys \ PublicKeys(load.before) :
                    SecretOf(wallets, p) = FirstWith(keys, p)
    /\ (load # NoLoad /\ load.status = "throw" /\ load.error = "InvalidPrivateKey") =>
          \E k \in 1 .. Len(ParseFile(load.file).privateKeys) :
              PublicKeyOf(ParseFile(load.file).privateKeys[k]) = Invalid

\* A second load brings s1 again, after s2: P1 stays once, with its secret.
C6_Witness ==
    /\ load # NoLoad
    /\ load.status = "return"
    /\ ~load.clearExisting
    /\ Len(load.before) = 1
    /\ load.before[1].privateKey = "s1"
    /\ ParseFile(load.file).privateKeys = <<"s2", "s1">>
    /\ Len(wallets) = 2
    /\ wallets[1].privateKey = "s1"
    /\ wallets[2].privateKey = "s2"
    /\ load.duplicates = <<"P1">>

(***************************************************************************)
(* Spec: a run of processAllWallets, or of analyzeWallets, over a loaded   *)
(* store.  One action per await of the code; a sleep is part of the action *)
(* of the await before it.  progressCallback returns normally.             *)
(***************************************************************************)

\* Mutant of TokenAmount: the token amount of the account is not read.
TokenAmountNotRead(info) == 0

\* closeTokenAccount lines 797-800: the amount at offset 64 of the data.
TokenAmount(info) == IF info # NoAccount THEN info.amount ELSE 0

\* closeTokenAccount lines 791-795.
LamportsOf(info) == IF info # NoAccount THEN info.lamports ELSE 0
ProgramOf(info) == IF info.program = "Token2022" THEN "Token2022" ELSE "Token"

\* Mutant of TransferCaught: the amount is reported as transferred.
TransferCaughtCounted(amount) ==
    [success |-> TRUE, amountTransferred |-> amount]

\* transferSolToFeePayer lines 1143-1150: the catch block.
TransferCaught(amount) == [success |-> FALSE, amountTransferred |-> 0]

\* Mutant of WalletErrorCaught: the error leaves processAllWallets.
WalletErrorRethrown(failed, evs, ev) ==
    [failedWallets |-> failed, events |-> evs, pc |-> "threw"]

\* processAllWallets lines 1393-1406: the catch block of one iteration.
WalletErrorCaught(failed, evs, ev) ==
    [failedWallets |-> failed + 1, events |-> Append(evs, ev), pc |-> "loop"]

\* Mutant of LoopContinues: the last wallet is left out.
LoopStopsEarly(idx, n) == idx < n - 1

\* for (let i = 0; i < wallets.length; i++) (line 1355)
LoopContinues(idx, n) == idx < n

PendingLog(held) ==
    [held |-> held, pipeline |-> "pending", sweep |-> "none",
     counted |-> "none", solTransferred |-> 0, totalRecovered |-> 0,
     slept |-> 0]

\* Lines 1388-1392: the milliseconds slept after wallet idx (from 0) of n
\* succeeded, before the next iteration.
SleepAfterSuccess(idx, n) == IF idx < n - 1 THEN 1500 ELSE 0

\* Lines 1393-1406: the catch block of the iteration sleeps nothing.
SleepAfterFailure(idx, n) == 0

\* A store of n wallets as loadWalletsFromFile leaves it, the ledger of
\* their holdings, and a collector that has run nothing.
StoreOfAtMost(most) ==
    /\ RetryIdle
    /\ DiscIdle
    /\ load = NoLoad
    /\ CollectorIdle
    /\ MainIdle
    /\ \E n \in 0 .. most :
        /\ wallets = FreshWallets(
                        [j \in 1 .. n |->
                            [privateKey |-> KeyRing[j],
                             publicKey |-> CollectorPublicKey(KeyRing[j])]])
        /\ ledger \in [1 .. n -> WalletHoldings]
        /\ walletLog = [j \in 1 .. n |-> PendingLog(ledger[j])]

Init == StoreOfAtMost(MaxWallets)

\* Mutant of W: the store is walked from its last wallet to its first.
WReversed == Len(wallets) - walletIndex

\* The wallet of the running iteration, counted from 1.
W == walletIndex + 1

\* setFeePayer (lines 542-545)
SetFeePayer ==
    /\ pc = "idle"
    /\ feePayerKeypair = NoKeypair
    /\ feePayerKeypair' = "F"
    /\ lastThrow' = NoThrow
    /\ UNCHANGED <<mainVars, remoteFailed, retryVars, discVars, storeVars, pc, loopVars,
                   walletVars, analysisVars, chainVars, events, decision,
                   walletLog>>

\* Mutant of FeePayerMissing: the test of the fee payer is left out.
FeePayerNeverMissing(keypair) == FALSE

\* if (!this.feePayerKeypair) (lines 1340-1342)
FeePayerMissing(keypair) == keypair = NoKeypair

\* processAllWallets(callback) lines 1339-1353: throws without a fee payer.
StartProcessAllWith(callback) ==
    /\ pc = "idle"
    /\ pc' = IF FeePayerMissing(feePayerKeypair) THEN "rejected" ELSE "loop"
    /\ progressCallback' = callback
    /\ lastThrow' = NoThrow
    /\ UNCHANGED <<storedRpcUrl, storedFeePayerKey, connection, rentCollector,
                   otherRun, remoteFailed, retryVars, discVars, storeVars,
                   feePayerKeypair, loopVars, walletVars, analysisVars,
                   chainVars, events, decision, walletLog>>

\* processAllWallets with a callback that returns.
StartProcessAll == StartProcessAllWith(Returning)

\* The rejection reaches the caller, which reports it (main.ts lines
\* 246-248: return { success: false, error }); the collector is as it was.
ErrorReturned ==
    /\ pc = "rejected"
    /\ pc' = "idle"
    /\ lastThrow' = NoThrow
    /\ UNCHANGED <<mainVars, remoteFailed, retryVars, discVars, storeVars,
                   feePayerKeypair, loopVars, walletVars, analysisVars,
                   chainVars, events, decision, walletLog>>

\* Lines 1355-1370 and 1216-1246: the 'Processing wallet...' event, then
\* processWalletCompletely up to its first await; a throw of the callback
\* is inside the try block and reaches the catch block of the iteration.
WalletBegin ==
    /\ pc = "loop"
    /\ LoopContinues(walletIndex, Len(wallets))
    /\ events' = Append(events,
            ProgressEvent(W, Len(wallets), wallets[W].publicKey,
                          "Processing wallet..."))
    /\ tokenAccountsClosed' = 0
    /\ rentRecovered' = 0
    /\ solTransferred' = 0
    /\ pc' = IF CallbackThrows("Processing wallet...") THEN "walletThrew"
             ELSE "getTokenAccounts"
    /\ lastThrow' = NoThrow
    /\ UNCHANGED <<mainVars, remoteFailed, retryVars, discVars, storeVars,
                   feePayerKeypair, loopVars, tokenAccounts, accountIndex,
                   updatedBalance, transaction, analysisVars, chainVars,
                   decision, walletLog>>

\* Lines 1409-1426: the summary.
ReturnSummary ==
    /\ pc = "loop"
    /\ ~LoopContinues(walletIndex, Len(wallets))
    /\ summary' = [totalWallets |-> Len(wallets),
                   successfulCollections |-> successfulWallets,
                   totalRentCollected |-> totalRecovered,
                   failedCollections |-> failedWallets,
                   results |-> results]
    /\ pc' = "returned"
    /\ lastThrow' = NoThrow
    /\ UNCHANGED <<mainVars, remoteFailed, retryVars, discVars, storeVars,
                   feePayerKeypair, walletIndex, successfulWallets,
                   failedWallets, totalRecovered, results, walletVars,
                   analysisVars, chainVars, events, decision, walletLog>>

\* The await the for-of loop of lines 1251-1286 reaches at position idx:
\* calculateRentExemptBalance of the account, or getTokenAccounts of
\* burnAllTokens after the last account.
AccountLoop(accts, idx) ==
    IF idx <= Len(accts) THEN "rentExempt" ELSE "burnGetTokenAccounts"

\* Line 1246: await this.getTokenAccounts(publicKey).
DiscoverStep ==
    /\ pc = "getTokenAccounts"
    /\ \E q \in QueryRuns(ledger[W].accounts) :
        /\ remoteFailed' =
            (remoteFailed \/ \E x \in Queries : AttemptFailed(q[x]))
        /\ lastThrow' = NoThrow
        /\ tokenAccounts' = GetTokenAccounts(q)
    /\ accountIndex' = 1
    /\ pc' = AccountLoop(tokenAccounts', 1)
    /\ UNCHANGED <<mainVars, retryVars, discVars, storeVars, feePayerKeypair, loopVars,
                   tokenAccountsClosed, rentRecovered, solTransferred,
                   updatedBalance, transaction, analysisVars, chainVars,
                   events, decision, walletLog>>

\* processWalletCompletely throws: the catch block of processAllWallets is
\* next.
PipelineThrows ==
    /\ pc' = "walletThrew"
    /\ walletLog' = [walletLog EXCEPT ![W].pipeline = "threw"]

\* Lines 1256-1262: await calculateRentExemptBalance (not wrapped in
\* retryWithBackoff), then canCloseAccount.  Every discovered record has
\* data (a Buffer), so the test of line 1255 passes.
RentExemptStep ==
    /\ pc = "rentExempt"
    /\ \E kind \in ScriptKinds, val \in RentExemptions :
        /\ LET r == Unwrapped(RemoteScript(kind, val))
               balance == tokenAccounts[accountIndex].lamports
               eligible == CanCloseAccount(balance, r.value)
           IN  /\ remoteFailed' = (remoteFailed \/ AttemptFailed(r))
               /\ lastThrow' = ThrownScript(kind, r)
               /\ IF r.status = "throw"
                  THEN /\ PipelineThrows
                       /\ UNCHANGED <<mainVars, accountIndex, decision>>
                  ELSE /\ decision' = [balance |-> balance,
                                       rentExemptBalance |-> r.value,
                                       rentAmount |->
                                          CalculateRentAmount(balance, r.value),
                                       eligible |-> eligible]
                       /\ accountIndex' =
                              IF eligible THEN accountIndex ELSE accountIndex + 1
                       /\ pc' = IF eligible THEN "closeGetAccountInfo"
                                ELSE AccountLoop(tokenAccounts, accountIndex + 1)
                       /\ UNCHANGED walletLog
    /\ UNCHANGED <<mainVars, retryVars, discVars, storeVars, feePayerKeypair, loopVars,
                   tokenAccounts, tokenAccountsClosed, rentRecovered,
                   solTransferred, updatedBalance, transaction, analysisVars,
                   chainVars, events>>

\* closeTokenAccount ended with closeResult; lines 1272-1281 follow: the
\* counters, sleep(1000), the next account.
CloseEnds(closeResult) ==
    /\ tokenAccountsClosed' =
            IF closeResult.success THEN tokenAccountsClosed + 1
            ELSE tokenAccountsClosed
    /\ rentRecovered' =
            IF closeResult.success
            THEN rentRecovered + closeResult.rentRecovered
            ELSE rentRecovered
    /\ transaction' = NoTx
    /\ decision' = NoDecision
    /\ accountIndex' = accountIndex + 1
    /\ pc' = AccountLoop(tokenAccounts, accountIndex + 1)

\* closeTokenAccount lines 866-873: the catch block.
CloseCaught == [success |-> FALSE, rentRecovered |-> 0]

\* closeTokenAccount lines 789-839: await connection.getAccountInfo (not
\* wrapped), then the burn and close instructions of one transaction.
CloseGetAccountInfo ==
    /\ pc = "closeGetAccountInfo"
    /\ \E kind \in ScriptKinds :
        /\ LET id == tokenAccounts[accountIndex].id
               r == Unwrapped(RemoteScript(kind,
                                   AccountInfo(ledger[W].accounts, id)))
           IN  /\ remoteFailed' = (remoteFailed \/ AttemptFailed(r))
               /\ lastThrow' = ThrownScript(kind, r)
               /\ IF r.status = "throw"
                  THEN CloseEnds(CloseCaught)
                  ELSE /\ transaction' =
                              [kind |-> "close", account |-> id,
                               burn |-> TokenAmount(r.value),
                               lamports |-> LamportsOf(r.value),
                               program |-> ProgramOf(r.value),
                               feePayer |-> feePayerKeypair]
                       /\ pc' = "closeGetLatestBlockhash"
                       /\ UNCHANGED <<mainVars, tokenAccountsClosed, rentRecovered, decision,
                                      accountIndex>>
    /\ UNCHANGED <<mainVars, retryVars, discVars, storeVars, feePayerKeypair, loopVars,
                   tokenAccounts, solTransferred, updatedBalance,
                   analysisVars, chainVars, events, walletLog>>

\* closeTokenAccount line 842: await connection.getLatestBlockhash (not
\* wrapped).
CloseGetLatestBlockhash ==
    /\ pc = "closeGetLatestBlockhash"
    /\ \E kind \in ScriptKinds :
        /\ LET r == Unwrapped(RemoteScript(kind, "blockhash"))
           IN  /\ remoteFailed' = (remoteFailed \/ AttemptFailed(r))
               /\ lastThrow' = ThrownScript(kind, r)
               /\ IF r.status = "throw"
                  THEN CloseEnds(CloseCaught)
                  ELSE /\ pc' = "closeSend"
                       /\ UNCHANGED <<mainVars, tokenAccountsClosed, rentRecovered,
                                      transaction, decision, accountIndex>>
    /\ UNCHANGED <<mainVars, retryVars, discVars, storeVars, feePayerKeypair, loopVars,
                   tokenAccounts, solTransferred, updatedBalance,
                   analysisVars, chainVars, events, walletLog>>

\* The ledger executes a confirmed transaction of wallet w: a close removes
\* the account and moves its lamports to the destination (the fee payer), a
\* burn zeroes the token amount, a transfer moves native lamports.
Executed(w, tx) ==
    /\ ledger' =
        [ledger EXCEPT ![w] =
            CASE tx.kind = "close" ->
                    [@ EXCEPT !.accounts = WithoutAccount(@, tx.account)]
              [] tx.kind = "burn" ->
                    [@ EXCEPT !.accounts = Burned(@, tx.account)]
              [] OTHER -> [@ EXCEPT !.native = @ - tx.lamports]]
    /\ feePayerReceived' =
        CASE tx.kind = "close" ->
                feePayerReceived
                    + LamportsOf(AccountInfo(ledger[w].accounts, tx.account))
          [] tx.kind = "burn" -> feePayerReceived
          [] OTHER -> feePayerReceived + tx.lamports
    /\ confirmed' = Append(confirmed, [wallet |-> w, tx |-> tx])

\* closeTokenAccount lines 848-864: await retryWithBackoff(send and
\* confirm).
CloseSend ==
    /\ pc = "closeSend"
    /\ \E kind \in ScriptKinds :
        /\ LET r == Wrapped(RemoteScript(kind, "signature"))
           IN  /\ remoteFailed' = (remoteFailed \/ AttemptFailed(r))
               /\ lastThrow' = ThrownScript(kind, r)
               /\ IF r.status = "throw"
                  THEN /\ CloseEnds(CloseCaught)
                       /\ UNCHANGED chainVars
                  ELSE /\ Executed(W, transaction)
                       /\ CloseEnds([success |-> TRUE,
                                     rentRecovered |-> transaction.lamports])
    /\ UNCHANGED <<mainVars, retryVars, discVars, storeVars, feePayerKeypair, loopVars,
                   tokenAccounts, solTransferred, updatedBalance,
                   analysisVars, events, walletLog>>

\* The await the for-of loop of burnAllTokens (line 1446) reaches at
\* position idx: getAccountInfo of the account, or, back in
\* processWalletCompletely, getBalance (line 1299).
BurnLoop(accts, idx) ==
    IF idx <= Len(accts) THEN "burnGetAccountInfo" ELSE "getBalance"

\* burnAllTokens line 1444: await this.getTokenAccounts.
BurnDiscover ==
    /\ pc = "burnGetTokenAccounts"
    /\ \E q \in QueryRuns(ledger[W].accounts) :
        /\ remoteFailed' =
            (remoteFailed \/ \E x \in Queries : AttemptFailed(q[x]))
        /\ lastThrow' = NoThrow
        /\ tokenAccounts' = GetTokenAccounts(q)
    /\ accountIndex' = 1
    /\ decision' = NoDecision
    /\ pc' = BurnLoop(tokenAccounts', 1)
    /\ UNCHANGED <<mainVars, retryVars, discVars, storeVars, feePayerKeypair, loopVars,
                   tokenAccountsClosed, rentRecovered, solTransferred,
                   updatedBalance, transaction, analysisVars, chainVars,
                   events, walletLog>>

\* The iteration of burnAllTokens ends (continue, the else branch, the
\* catch block of lines 1515-1517, or sleep(500) after a burn).
BurnNext ==
    /\ transaction' = NoTx
    /\ accountIndex' = accountIndex + 1
    /\ pc' = BurnLoop(tokenAccounts, accountIndex + 1)

\* burnAllTokens lines 1456-1492: await connection.getAccountInfo (not
\* wrapped), then the burn instruction if the amount is positive.  The
\* program of the instruction is the owner of the discovered record (lines
\* 1449-1450), which is the owner the ledger has for the account.
BurnGetAccountInfo ==
    /\ pc = "burnGetAccountInfo"
    /\ \E kind \in ScriptKinds :
        /\ LET id == tokenAccounts[accountIndex].id
               r == Unwrapped(RemoteScript(kind,
                                   AccountInfo(ledger[W].accounts, id)))
           IN  /\ remoteFailed' = (remoteFailed \/ AttemptFailed(r))
               /\ lastThrow' = ThrownScript(kind, r)
               /\ IF r.status = "return" /\ r.value # NoAccount
                     /\ r.value.amount > 0
                  THEN /\ transaction' =
                              [kind |-> "burn", account |-> id,
                               burn |-> r.value.amount, lamports |-> 0,
                               program |-> ProgramOf(r.value),
                               feePayer |-> feePayerKeypair]
                       /\ pc' = "burnGetLatestBlockhash"
                       /\ UNCHANGED accountIndex
                  ELSE BurnNext
    /\ UNCHANGED <<mainVars, retryVars, discVars, storeVars, feePayerKeypair, loopVars,
                   tokenAccounts, tokenAccountsClosed, rentRecovered,
                   solTransferred, updatedBalance, analysisVars, chainVars,
                   events, decision, walletLog>>

\* burnAllTokens line 1495: await connection.getLatestBlockhash.
BurnGetLatestBlockhash ==
    /\ pc = "burnGetLatestBlockhash"
    /\ \E kind \in ScriptKinds :
        /\ LET r == Unwrapped(RemoteScript(kind, "blockhash"))
           IN  /\ remoteFailed' = (remoteFailed \/ AttemptFailed(r))
               /\ lastThrow' = ThrownScript(kind, r)
               /\ IF r.status = "throw"
                  THEN BurnNext
                  ELSE /\ pc' = "burnSend"
                       /\ UNCHANGED <<mainVars, transaction, accountIndex>>
    /\ UNCHANGED <<mainVars, retryVars, discVars, storeVars, feePayerKeypair, loopVars,
                   tokenAccounts, tokenAccountsClosed, rentRecovered,
                   solTransferred, updatedBalance, analysisVars, chainVars,
                   events, decision, walletLog>>

\* burnAllTokens lines 1501-1514: await retryWithBackoff(send and confirm).
BurnSend ==
    /\ pc = "burnSend"
    /\ \E kind \in ScriptKinds :
        /\ LET r == Wrapped(RemoteScript(kind, "signature"))
           IN  /\ remoteFailed' = (remoteFailed \/ AttemptFailed(r))
               /\ lastThrow' = ThrownScript(kind, r)
               /\ IF r.status = "throw"
                  THEN UNCHANGED chainVars
                  ELSE Executed(W, transaction)
               /\ BurnNext
    /\ UNCHANGED <<mainVars, retryVars, discVars, storeVars, feePayerKeypair, loopVars,
                   tokenAccounts, tokenAccountsClosed, rentRecovered,
                   solTransferred, updatedBalance, analysisVars, events,
                   decision, walletLog>>

\* Mutant of SweepAmount: the fee of the transfer is left in the wallet.
SweepAmountLessFee(balance) == IF balance > 5000 THEN balance - 5000 ELSE 0

\* transferSolToFeePayer lines 1095-1096: transferAmount = amount, the
\* lamports of the transfer instruction (lines 1109-1115).
SweepAmount(balance) == balance

\* Lines 1299-1320: await retryWithBackoff(getBalance); a positive balance
\* goes to transferSolToFeePayer, which builds the transfer of all of it.
BalanceStep ==
    /\ pc = "getBalance"
    /\ \E kind \in ScriptKinds :
        /\ LET r == Wrapped(RemoteScript(kind, ledger[W].native))
           IN  /\ remoteFailed' = (remoteFailed \/ AttemptFailed(r))
               /\ lastThrow' = ThrownScript(kind, r)
               /\ IF r.status = "throw"
                  THEN /\ PipelineThrows
                       /\ UNCHANGED <<mainVars, updatedBalance, transaction>>
                  ELSE /\ updatedBalance' = r.value
                       /\ transaction' =
                              IF r.value > 0
                              THEN [kind |-> "transfer", account |-> "native",
                                    burn |-> 0,
                                    lamports |-> SweepAmount(r.value),
                                    program |-> "System",
                                    feePayer |-> feePayerKeypair]
                              ELSE NoTx
                       /\ pc' = IF r.value > 0 THEN "sweepGetLatestBlockhash"
                                ELSE "walletReturned"
                       /\ UNCHANGED walletLog
    /\ UNCHANGED <<mainVars, retryVars, discVars, storeVars, feePayerKeypair, loopVars,
                   tokenAccounts, accountIndex, tokenAccountsClosed,
                   rentRecovered, solTransferred, analysisVars, chainVars,
                   events, decision>>

\* transferSolToFeePayer ended with transferResult; lines 1308-1317 follow
\* and processWalletCompletely returns.
SweepEnds(transferResult, how) ==
    /\ solTransferred' =
            IF transferResult.success THEN transferResult.amountTransferred
            ELSE solTransferred
    /\ walletLog' = [walletLog EXCEPT ![W].sweep = how]
    /\ transaction' = NoTx
    /\ pc' = "walletReturned"

\* transferSolToFeePayer line 1121: await connection.getLatestBlockhash
\* (not wrapped).
SweepGetLatestBlockhash ==
    /\ pc = "sweepGetLatestBlockhash"
    /\ \E kind \in ScriptKinds :
        /\ LET r == Unwrapped(RemoteScript(kind, "blockhash"))
           IN  /\ remoteFailed' = (remoteFailed \/ AttemptFailed(r))
               /\ lastThrow' = ThrownScript(kind, r)
               /\ IF r.status = "throw"
                  THEN SweepEnds(TransferCaught(transaction.lamports),
                                 "notSubmitted")
                  ELSE /\ pc' = "sweepSend"
                       /\ UNCHANGED <<mainVars, solTransferred, walletLog, transaction>>
    /\ UNCHANGED <<mainVars, retryVars, discVars, storeVars, feePayerKeypair, loopVars,
                   tokenAccounts, accountIndex, tokenAccountsClosed,
                   rentRecovered, updatedBalance, analysisVars, chainVars,
                   events, decision>>

\* transferSolToFeePayer lines 1127-1150: await retryWithBackoff(send and
\* confirm).
SweepSend ==
    /\ pc = "sweepSend"
    /\ \E kind \in ScriptKinds :
        /\ LET r == Wrapped(RemoteScript(kind, "signature"))
           IN  /\ remoteFailed' = (remoteFailed \/ AttemptFailed(r))
               /\ lastThrow' = ThrownScript(kind, r)
               /\ IF r.status = "throw"
                  THEN /\ SweepEnds(TransferCaught(transaction.lamports), "failed")
                       /\ UNCHANGED chainVars
                  ELSE /\ Executed(W, transaction)
                       /\ SweepEnds([success |-> TRUE,
                                     amountTransferred |-> transaction.lamports],
                                    "confirmed")
    /\ UNCHANGED <<mainVars, retryVars, discVars, storeVars, feePayerKeypair, loopVars,
                   tokenAccounts, accountIndex, tokenAccountsClosed,
                   rentRecovered, updatedBalance, analysisVars, events,
                   decision>>

\* Mutant of WalletTotal: the swept lamports are left out.
WalletTotalRentOnly(rent, sol) == rent

\* const totalRecovered = rentRecovered + solTransferred (line 1319)
WalletTotal(rent, sol) == rent + sol

\* processWalletCompletely has ended: its locals are gone.
LocalsGone ==
    /\ tokenAccounts' = <<>>
    /\ accountIndex' = 1
    /\ tokenAccountsClosed' = 0
    /\ rentRecovered' = 0
    /\ solTransferred' = 0
    /\ updatedBalance' = 0
    /\ transaction' = NoTx
    /\ decision' = NoDecision

\* Lines 1319-1333 and 1370-1392: processWalletCompletely returns its
\* result; the totals, the 'Collected' event, sleep(1500) before the next
\* wallet.  A throw of the callback comes after the totals, inside the
\* try block, and reaches the catch block of the iteration.
WalletSucceeded ==
    /\ pc = "walletReturned"
    /\ LET walletResult ==
            [tokenAccountsClosed |-> tokenAccountsClosed,
             rentRecovered |-> rentRecovered,
             solTransferred |-> solTransferred,
             totalRecovered |-> WalletTotal(rentRecovered, solTransferred)]
       IN  /\ totalRecovered' = totalRecovered + walletResult.totalRecovered
           /\ successfulWallets' = successfulWallets + 1
           /\ events' = Append(events,
                    ProgressEvent(W, Len(wallets), wallets[W].publicKey,
                                  Collected(walletResult.totalRecovered)))
           /\ walletLog' =
                [walletLog EXCEPT
                    ![W].pipeline = "returned",
                    ![W].counted = "successful",
                    ![W].solTransferred = walletResult.solTransferred,
                    ![W].totalRecovered = walletResult.totalRecovered,
                    ![W].slept =
                        IF CallbackThrows("Collected") THEN @
                        ELSE SleepAfterSuccess(walletIndex, Len(wallets))]
    /\ walletIndex' =
        IF CallbackThrows("Collected") THEN walletIndex ELSE walletIndex + 1
    /\ pc' = IF CallbackThrows("Collected") THEN "walletThrew" ELSE "loop"
    /\ LocalsGone
    /\ lastThrow' = NoThrow
    /\ UNCHANGED <<mainVars, remoteFailed, retryVars, discVars, storeVars,
                   feePayerKeypair, failedWallets, results, summary,
                   analysisVars, chainVars>>

\* Lines 1393-1406: the catch block, then the next iteration.  A throw of
\* the callback is outside every try block: processAllWallets throws.
WalletFailed ==
    /\ pc = "walletThrew"
    /\ LET caught ==
            WalletErrorCaught(failedWallets, events,
                ProgressEvent(W, Len(wallets), wallets[W].publicKey,
                              "Failed to process"))
       IN  /\ failedWallets' = caught.failedWallets
           /\ events' = caught.events
           /\ pc' = IF CallbackThrows("Failed to process") THEN "threw"
                    ELSE caught.pc
           /\ walletLog' =
                [walletLog EXCEPT
                    ![W].counted =
                        IF caught.failedWallets > failedWallets THEN "failed"
                        ELSE @,
                    ![W].slept =
                        SleepAfterFailure(walletIndex, Len(wallets))]
           /\ walletIndex' =
                IF caught.pc = "loop" /\ ~CallbackThrows("Failed to process")
                THEN walletIndex + 1 ELSE walletIndex
    /\ LocalsGone
    /\ lastThrow' = NoThrow
    /\ UNCHANGED <<mainVars, remoteFailed, retryVars, discVars, storeVars,
                   feePayerKeypair, successfulWallets, totalRecovered, results,
                   summary, analysisVars, chainVars>>

\* analyzeWallets lines 947-952.
StartAnalyze ==
    /\ pc = "idle"
    /\ analyzedWallets' = <<>>
    /\ pc' = "analyzeLoop"
    /\ lastThrow' = NoThrow
    /\ UNCHANGED <<mainVars, remoteFailed, retryVars, discVars, storeVars,
                   feePayerKeypair, loopVars, walletVars, walletBalance,
                   totalRentToCollect, chainVars, events, decision, walletLog>>

\* analyzeWallets lines 955-973 and processSingleWallet lines 879-884: the
\* 'Checking balance...' event and sleep(250).  The store is shorter than
\* BATCH_SIZE (line 531): one batch, no delay between batches.
AnalyzeBegin ==
    /\ pc = "analyzeLoop"
    /\ walletIndex < Len(wallets)
    /\ events' = Append(events,
            ProgressEvent(W, Len(wallets), wallets[W].publicKey,
                          "Checking balance..."))
    /\ pc' = "analyzeGetBalance"
    /\ lastThrow' = NoThrow
    /\ UNCHANGED <<mainVars, remoteFailed, retryVars, discVars, storeVars,
                   feePayerKeypair, loopVars, walletVars, analysisVars,
                   chainVars, decision, walletLog>>

\* processSingleWallet returned `result`; analyzeWallets lines 974-983
\* follow: the push, the 'Found ... SOL rent' or 'No rent found' event.
AnalyzeEnds(result) ==
    /\ analyzedWallets' = Append(analyzedWallets, result)
    /\ events' = Append(events,
            ProgressEvent(W, Len(wallets), wallets[W].publicKey,
                IF result.canClose
                THEN <<"Found", result.rentAmount, "SOL rent">>
                ELSE <<"No rent found">>))
    /\ walletIndex' = walletIndex + 1
    /\ walletBalance' = 0
    /\ totalRentToCollect' = 0
    /\ tokenAccounts' = <<>>
    /\ accountIndex' = 1
    /\ decision' = NoDecision
    /\ pc' = "analyzeLoop"

\* processSingleWallet lines 936-939: the catch block returns the wallet as
\* it was.
AnalyzeCaught ==
    /\ AnalyzeEnds(wallets[W])
    /\ UNCHANGED wallets

\* The await the for-of loop of lines 901-917 reaches at position idx:
\* calculateRentExemptBalance of the account, or none after the last.
AnalyzeLoop(accts, idx) ==
    IF idx <= Len(accts) THEN "analyzeRentExempt" ELSE "analyzeUpdate"

\* processSingleWallet lines 888-890: await retryWithBackoff(getBalance).
AnalyzeGetBalance ==
    /\ pc = "analyzeGetBalance"
    /\ \E kind \in ScriptKinds :
        /\ LET r == Wrapped(RemoteScript(kind, ledger[W].native))
           IN  /\ remoteFailed' = (remoteFailed \/ AttemptFailed(r))
               /\ lastThrow' = ThrownScript(kind, r)
               /\ IF r.status = "throw"
                  THEN AnalyzeCaught
                  ELSE /\ walletBalance' = r.value
                       /\ pc' = "analyzeGetTokenAccounts"
                       /\ UNCHANGED <<mainVars, wallets, walletIndex, totalRentToCollect,
                                      analyzedWallets, tokenAccounts, accountIndex,
                                      events, decision>>
    /\ UNCHANGED <<mainVars, retryVars, discVars, load, feePayerKeypair,
                   successfulWallets, failedWallets, totalRecovered, results,
                   summary, tokenAccountsClosed, rentRecovered,
                   solTransferred, updatedBalance, transaction, chainVars,
                   walletLog>>

\* processSingleWallet line 895: await this.getTokenAccounts.
AnalyzeDiscover ==
    /\ pc = "analyzeGetTokenAccounts"
    /\ \E q \in QueryRuns(ledger[W].accounts) :
        /\ remoteFailed' =
            (remoteFailed \/ \E x \in Queries : AttemptFailed(q[x]))
        /\ lastThrow' = NoThrow
        /\ tokenAccounts' = GetTokenAccounts(q)
    /\ accountIndex' = 1
    /\ pc' = AnalyzeLoop(tokenAccounts', 1)
    /\ UNCHANGED <<mainVars, retryVars, discVars, storeVars, feePayerKeypair, loopVars,
                   tokenAccountsClosed, rentRecovered, solTransferred,
                   updatedBalance, transaction, analysisVars, chainVars,
                   events, decision, walletLog>>

\* processSingleWallet lines 901-917: await calculateRentExemptBalance (not
\* wrapped), then canCloseAccount and the sum.
AnalyzeRentExempt ==
    /\ pc = "analyzeRentExempt"
    /\ \E kind \in ScriptKinds, val \in RentExemptions :
        /\ LET r == Unwrapped(RemoteScript(kind, val))
               balance == tokenAccounts[accountIndex].lamports
               rentAmount == CalculateRentAmount(balance, r.value)
               eligible == CanCloseAccount(balance, r.value)
           IN  /\ remoteFailed' = (remoteFailed \/ AttemptFailed(r))
               /\ lastThrow' = ThrownScript(kind, r)
               /\ IF r.status = "throw"
                  THEN AnalyzeCaught
                  ELSE /\ totalRentToCollect' =
                              IF eligible THEN totalRentToCollect + rentAmount
                              ELSE totalRentToCollect
                       /\ decision' = [balance |-> balance,
                                       rentExemptBalance |-> r.value,
                                       rentAmount |-> rentAmount,
                                       eligible |-> eligible]
                       /\ accountIndex' = accountIndex + 1
                       /\ pc' = AnalyzeLoop(tokenAccounts, accountIndex + 1)
                       /\ UNCHANGED <<mainVars, wallets, walletIndex, walletBalance,
                                      analyzedWallets, tokenAccounts, events>>
    /\ UNCHANGED <<mainVars, retryVars, discVars, load, feePayerKeypair,
                   successfulWallets, failedWallets, totalRecovered, results,
                   summary, tokenAccountsClosed, rentRecovered,
                   solTransferred, updatedBalance, transaction, chainVars,
                   walletLog>>

\* processSingleWallet lines 919-934: the loop is over; updateWalletInfo and
\* the processed wallet.
AnalyzeUpdate ==
    /\ pc = "analyzeUpdate"
    /\ wallets' = WriteBack(wallets, walletIndex, walletBalance,
                            totalRentToCollect)
    /\ AnalyzeEnds([wallets[W] EXCEPT
                        !.balance = walletBalance,
                        !.rentExemptBalance = 0,
                        !.rentAmount = totalRentToCollect,
                        !.canClose = totalRentToCollect > 0])
    /\ lastThrow' = NoThrow
    /\ UNCHANGED <<mainVars, remoteFailed, retryVars, discVars, load, feePayerKeypair,
                   successfulWallets, failedWallets, totalRecovered, results,
                   summary, tokenAccountsClosed, rentRecovered, solTransferred,
                   updatedBalance, transaction, chainVars, walletLog>>

\* analyzeWallets lines 992-995.
AnalyzeReturn ==
    /\ pc = "analyzeLoop"
    /\ walletIndex >= Len(wallets)
    /\ pc' = "analyzed"
    /\ lastThrow' = NoThrow
    /\ UNCHANGED <<mainVars, remoteFailed, retryVars, discVars, storeVars,
                   feePayerKeypair, loopVars, walletVars, analysisVars,
                   chainVars, events, decision, walletLog>>

PipelineStep ==
    \/ WalletBegin
    \/ DiscoverStep
    \/ RentExemptStep
    \/ CloseGetAccountInfo
    \/ CloseGetLatestBlockhash
    \/ CloseSend
    \/ BurnDiscover
    \/ BurnGetAccountInfo
    \/ BurnGetLatestBlockhash
    \/ BurnSend
    \/ BalanceStep
    \/ SweepGetLatestBlockhash
    \/ SweepSend
    \/ WalletSucceeded
    \/ WalletFailed
    \/ ReturnSummary

AnalysisStep ==
    \/ AnalyzeBegin
    \/ AnalyzeGetBalance
    \/ AnalyzeDiscover
    \/ AnalyzeRentExempt
    \/ AnalyzeUpdate
    \/ AnalyzeReturn

Next ==
    \/ SetFeePayer
    \/ StartProcessAll
    \/ ErrorReturned
    \/ StartAnalyze
    \/ PipelineStep
    \/ AnalysisStep

Spec == Init /\ [][Next]_vars

\* Every remote call and every timer eventually returns or fails: a step of
\* a running method is eventually taken.
SpecLive == Spec /\ WF_vars(PipelineStep) /\ WF_vars(AnalysisStep)

(***************************************************************************)
(* SpecShell: the handlers of main.ts around one run of processAllWallets. *)
(* The renderer may invoke set-rpc-url and set-fee-payer at any await of   *)
(* the run; process-all-wallets starts the run while none is in progress.  *)
(***************************************************************************)

\* The most wallets in the store when the shell starts a run.
MaxShellWallets == 1

\* The endpoints and the fee-payer secrets the renderer sends.
RpcUrls == {"u1", "u2"}
FeePayerKeys == {"f", "g"}

\* Keypair.fromSecretKey(bs58.decode(feePayerPrivateKey)) (line 543): the
\* keypair of a fee-payer secret.
KeypairOf(privateKey) ==
    CASE privateKey = "f" -> "F"
      [] privateKey = "g" -> "G"
      [] OTHER -> NoKeypair

InitShell == StoreOfAtMost(MaxShellWallets)

\* The awaits of a remote call at which a run of processAllWallets is
\* suspended.
PipelinePcs ==
    {"getTokenAccounts", "rentExempt", "closeGetAccountInfo",
     "closeGetLatestBlockhash", "closeSend", "burnGetTokenAccounts",
     "burnGetAccountInfo", "burnGetLatestBlockhash", "burnSend",
     "getBalance", "sweepGetLatestBlockhash", "sweepSend"}

\* ipcMain.handle('set-rpc-url') (main.ts lines 192-206); the collector's
\* Connection is not touched.
SetRpcUrlHandler ==
    /\ \E rpcUrl \in RpcUrls : storedRpcUrl' = rpcUrl
    /\ UNCHANGED <<retryVars, discVars, storeVars, collectorVars,
                   storedFeePayerKey, connection, progressCallback,
                   rentCollector, otherRun>>

\* Mutant of FeePayerAfterStore: the handler hands the key to the collector.
FeePayerAfterStoreApplied(keypair, privateKey) == KeypairOf(privateKey)

\* ipcMain.handle('set-fee-payer') (main.ts lines 208-222) assigns
\* storedFeePayerKey and saves the configuration; it does not call
\* rentCollector.setFeePayer, so the collector keeps its keypair.
FeePayerAfterStore(keypair, privateKey) == keypair

SetFeePayerHandler ==
    /\ \E privateKey \in FeePayerKeys :
        /\ storedFeePayerKey' = privateKey
        /\ feePayerKeypair' = FeePayerAfterStore(feePayerKeypair, privateKey)
    /\ UNCHANGED <<remoteFailed, lastThrow, retryVars, discVars, storeVars, pc, loopVars,
                   walletVars, analysisVars, chainVars, events, decision,
                   walletLog, storedRpcUrl, connection, progressCallback,
                   rentCollector, otherRun>>

\* ipcMain.handle('process-all-wallets') (main.ts lines 224-243) up to the
\* first await of processAllWallets: without a stored endpoint or a stored
\* fee payer it throws; otherwise it constructs a collector on the stored
\* endpoint, sets its fee payer from the stored key and starts the run.
ProcessAllWalletsHandler ==
    /\ pc = "idle"
    /\ IF storedRpcUrl = NoUrl \/ storedFeePayerKey = NoKey
       THEN /\ pc' = "rejected"
            /\ UNCHANGED <<feePayerKeypair, connection, rentCollector>>
       ELSE LET keypair == KeypairOf(storedFeePayerKey) IN
            /\ rentCollector' = "this"
            /\ connection' = storedRpcUrl
            /\ feePayerKeypair' = keypair
            /\ pc' = IF FeePayerMissing(keypair) THEN "rejected" ELSE "loop"
    /\ UNCHANGED <<remoteFailed, lastThrow, retryVars, discVars, storeVars, loopVars,
                   walletVars, analysisVars, chainVars, events, decision,
                   walletLog, storedRpcUrl, storedFeePayerKey,
                   progressCallback, otherRun>>

\* ipcMain.handle('process-all-wallets') (main.ts lines 224-243) invoked
\* while a run is suspended at an await.  The handler has no test for a run
\* in progress: it assigns a new collector to rentCollector (line 237) and
\* calls its processAllWallets, which runs beside the first run on the same
\* store and with a fee payer of its own.  The fields of the collector of
\* the first run are not touched; the steps of the second run are those of
\* PipelineStep on the new collector and are not followed here.
ProcessAllWalletsDuringRun ==
    /\ pc \in PipelinePcs
    /\ otherRun = NoRun
    /\ storedRpcUrl # NoUrl
    /\ storedFeePayerKey # NoKey
    /\ rentCollector' = "later"
    /\ otherRun' = "processAllWallets"
    /\ UNCHANGED <<retryVars, discVars, storeVars, collectorVars,
                   storedRpcUrl, storedFeePayerKey, connection,
                   progressCallback>>

\* ipcMain.handle('process-single-wallet') (main.ts lines 260-270) invoked
\* while a run is suspended at an await: rentCollector is not null, and the
\* handler calls processWalletCompletely(walletIndex) of it, beside the run.
ProcessSingleWalletDuringRun ==
    /\ pc \in PipelinePcs
    /\ otherRun = NoRun
    /\ rentCollector # NoCollector
    /\ otherRun' = "processWalletCompletely"
    /\ UNCHANGED <<retryVars, discVars, storeVars, collectorVars,
                   storedRpcUrl, storedFeePayerKey, connection,
                   progressCallback, rentCollector>>

\* The method of the later request returns or throws, and its handler
\* answers the renderer (main.ts lines 245-248 and 265-269).
OtherRunEnds ==
    /\ otherRun # NoRun
    /\ otherRun' = NoRun
    /\ UNCHANGED <<retryVars, discVars, storeVars, collectorVars,
                   storedRpcUrl, storedFeePayerKey, connection,
                   progressCallback, rentCollector>>

NextShell ==
    \/ SetRpcUrlHandler
    \/ SetFeePayerHandler
    \/ ProcessAllWalletsHandler
    \/ ErrorReturned
    \/ PipelineStep

SpecShell == InitShell /\ [][NextShell]_vars

\* SpecRequests: the shell of SpecShell, and at most one further
\* process-all-wallets or process-single-wallet request while the run is
\* suspended.
NextRequests ==
    \/ NextShell
    \/ ProcessAllWalletsDuringRun
    \/ ProcessSingleWalletDuringRun
    \/ OtherRunEnds

SpecRequests == InitShell /\ [][NextRequests]_vars

(***************************************************************************)
(* SpecCallback: processAllWallets called with any progressCallback, one   *)
(* that throws at some kinds of status included.                           *)
(***************************************************************************)

InitCallback == StoreOfAtMost(MaxShellWallets)

\* processAllWallets(progressCallback) with a callback of the caller's.
StartWithCallback ==
    \E callback \in Callbacks : StartProcessAllWith(callback)

NextCallback ==
    \/ SetFeePayer
    \/ StartWithCallback
    \/ ErrorReturned
    \/ PipelineStep

SpecCallback == InitCallback /\ [][NextCallback]_vars

(***************************************************************************)
(* Properties of processAllWallets and analyzeWallets                      *)
(***************************************************************************)

WalletIds == 1 .. Len(wallets)

ClosePcs == {"closeGetAccountInfo", "closeGetLatestBlockhash", "closeSend"}

AnalysisPcs == {"analyzeRentExempt", "analyzeUpdate"}

FailedEvents(w) ==
    {e \in 1 .. Len(events) :
        /\ events[e].current = w
        /\ events[e].status = "Failed to process"}

CountedAs(how) == {w \in WalletIds : walletLog[w].counted = how}

RECURSIVE SumRecovered(_)
SumRecovered(ws) ==
    IF ws = {} THEN 0
    ELSE LET w == CHOOSE x \in ws : TRUE
         IN  walletLog[w].totalRecovered + SumRecovered(ws \ {w})

RECURSIVE SumLamports(_, _)
SumLamports(accts, n) ==
    IF n = 0 THEN 0 ELSE accts[n].lamports + SumLamports(accts, n - 1)

\* C1: once the pipeline of wallet w has thrown and the catch block of its
\* iteration has run, w is counted in failedWallets exactly once, exactly
\* one 'Failed to process' event names w, the loop has moved on to the next
\* wallet, and the error has not left processAllWallets; at the return
\* every wallet has been processed.
C1_FailureIsolated ==
    /\ pc # "threw"
    /\ failedWallets = Cardinality(CountedAs("failed"))
    /\ \A w \in WalletIds :
        walletLog[w].pipeline = "threw" =>
            \/ pc = "walletThrew" /\ W = w
            \/ /\ walletLog[w].counted = "failed"
               /\ Cardinality(FailedEvents(w)) = 1
               /\ walletIndex >= w
               /\ w < Len(wallets) /\ walletIndex > w =>
                    walletLog[w + 1].pipeline # "pending"
    /\ pc = "returned" =>
        \A w \in WalletIds : walletLog[w].pipeline # "pending"

\* The first wallet's pipeline threw and the second wallet was processed to
\* its end.
C1_Witness ==
    /\ pc = "returned"
    /\ Len(wallets) = 2
    /\ walletLog[1].pipeline = "threw"
    /\ walletLog[2].pipeline = "returned"
    /\ failedWallets = 1
    /\ successfulWallets = 1

\* C2: under SpecLive a run of processAllWallets that has entered its loop
\* (the fee payer is set) returns, and the summary it returns has
\* totalWallets equal to the size of the store and successfulCollections +
\* failedCollections = totalWallets.
C2_TerminatesWithCounts ==
    /\ [](pc = "returned" =>
            /\ summary.totalWallets = Len(wallets)
            /\ summary.successfulCollections + summary.failedCollections
                    = summary.totalWallets)
    /\ (pc = "loop") ~> (pc = "returned")

\* A run over two wallets returned, one wallet counted successful and one
\* failed.
C2_Witness ==
    /\ pc = "returned"
    /\ summary.totalWallets = 2
    /\ summary.successfulCollections = 1
    /\ summary.failedCollections = 1

\* The end-to-end scenario: wallet 1 holds HoldingsX, wallet 2 holds
\* HoldingsY, and no attempt of a remote call has failed.
Scenario ==
    /\ Len(wallets) = 2
    /\ walletLog[1].held = HoldingsX
    /\ walletLog[2].held = HoldingsY
    /\ ~remoteFailed

\* C3: in the end-to-end scenario the run confirms exactly two
\* transactions: for X one transaction that burns 1,000 units and closes
\* the account, moving 2,039,280 lamports to the fee payer, and no transfer;
\* for Y one transfer of 500,000 lamports.  The summary has totalWallets 2,
\* successfulCollections 2, failedCollections 0, totalRentCollected
\* 2,539,280.
C3_EndToEnd ==
    Scenario /\ pc = "returned" =>
        /\ confirmed =
            <<[wallet |-> 1,
               tx |-> [kind |-> "close", account |-> "A", burn |-> 1000,
                       lamports |-> 2039280, program |-> "Token",
                       feePayer |-> "F"]],
              [wallet |-> 2,
               tx |-> [kind |-> "transfer", account |-> "native",
                       burn |-> 0, lamports |-> 500000,
                       program |-> "System", feePayer |-> "F"]]>>
        /\ ledger[1] = [accounts |-> <<>>, native |-> 0]
        /\ ledger[2] = [accounts |-> <<>>, native |-> 0]
        /\ walletLog[1].sweep = "none"
        /\ feePayerReceived = 2539280
        /\ summary.totalWallets = 2
        /\ summary.successfulCollections = 2
        /\ summary.failedCollections = 0
        /\ summary.totalRentCollected = 2539280

C3_Witness ==
    /\ Scenario
    /\ pc = "returned"
    /\ Len(confirmed) = 2

\* C4 as stated: at the return, a wallet whose sweep transaction failed on
\* submission is counted in failedWallets, and totalRecovered includes what
\* every successfully processed wallet recovered.
C4_SweepFailureCountsFailed ==
    pc = "returned" =>
        /\ \A w \in WalletIds :
            walletLog[w].sweep = "failed" => walletLog[w].counted = "failed"
        /\ summary.totalRentCollected = SumRecovered(CountedAs("successful"))

\* C4 amended: at the return, a wallet whose sweep transaction failed on
\* submission has solTransferred 0 and is counted in successfulWallets, not
\* in failedWallets (which counts exactly the wallets whose pipeline
\* threw), and totalRecovered includes what every successfully processed
\* wallet recovered.
C4_SweepFailureCountsSuccessful ==
    pc = "returned" =>
        /\ \A w \in WalletIds :
            walletLog[w].sweep = "failed" =>
                /\ walletLog[w].counted = "successful"
                /\ walletLog[w].solTransferred = 0
                /\ ledger[w].native = walletLog[w].held.native
        /\ summary.failedCollections =
                Cardinality({w \in WalletIds :
                                walletLog[w].pipeline = "threw"})
        /\ summary.totalRentCollected = SumRecovered(CountedAs("successful"))

\* Wallet 2's sweep failed on submission; wallet 1 closed an account.
C4_Witness ==
    /\ pc = "returned"
    /\ Len(wallets) = 2
    /\ walletLog[2].sweep = "failed"
    /\ walletLog[1].totalRecovered = 2039280
    /\ summary.successfulCollections = 2
    /\ summary.failedCollections = 0
    /\ summary.totalRentCollected = 2039280

\* C5: results holds one entry per wallet processed so far, and the
\* summary returns one entry for every wallet.
C5_ResultsPerWallet ==
    /\ pc = "loop" => Len(results) = walletIndex
    /\ pc = "returned" => Len(summary.results) = Len(wallets)

BurnPcs ==
    {"burnGetTokenAccounts", "burnGetAccountInfo", "burnGetLatestBlockhash",
     "burnSend"}

SweepPcs == {"getBalance", "sweepGetLatestBlockhash", "sweepSend"}

\* The confirmed transactions of wallet w, in the order of confirmation.
ConfirmedOf(w) == SelectSeq(confirmed, LAMBDA e : e.wallet = w)

KindsOf(w) == [j \in 1 .. Len(ConfirmedOf(w)) |-> ConfirmedOf(w)[j].tx.kind]

\* The kinds of a sequence follow the order given: a kind later in order
\* never comes before a kind earlier in order.
InPhaseOrder(kinds, order) ==
    \A a, b \in 1 .. Len(kinds) :
        a < b =>
            \A x, y \in 1 .. Len(order) :
                kinds[a] = order[x] /\ kinds[b] = order[y] => x <= y

\* Every close transaction about to be sent carries, before its close
\* instruction, the burn of the full token amount the account has.
CloseBurnsFullAmount ==
    pc = "closeSend" =>
        /\ transaction.kind = "close"
        /\ transaction.burn =
            AccountInfo(ledger[W].accounts, transaction.account).amount

TransfersOf(w) ==
    {j \in 1 .. Len(ConfirmedOf(w)) : ConfirmedOf(w)[j].tx.kind = "transfer"}

\* The steps of one wallet that handle a token account.
AccountPcs ==
    {"rentExempt"} \cup ClosePcs
        \cup {"burnGetAccountInfo", "burnGetLatestBlockhash", "burnSend"}

ClosesOf(w) ==
    {j \in 1 .. Len(ConfirmedOf(w)) : ConfirmedOf(w)[j].tx.kind = "close"}

RECURSIVE SumClosed(_, _)
SumClosed(txs, n) ==
    IF n = 0 THEN 0
    ELSE (IF txs[n].tx.kind = "close" THEN txs[n].tx.lamports ELSE 0)
            + SumClosed(txs, n - 1)

\* The running wallet is in the loop over its accounts, at an account that
\* holds lamports (one canCloseAccount accepts).
AtEligibleAccount ==
    /\ accountIndex <= Len(tokenAccounts)
    /\ tokenAccounts[accountIndex].lamports > 0

\* C14: a failure while an eligible account of a wallet is handled stays
\* with that account: tokenAccountsClosed and rentRecovered count exactly
\* the accounts whose close was confirmed, and the pipeline of the wallet
\* never throws at an eligible account (so the remaining accounts and the
\* sweep are still attempted and the wallet is not counted failed).
C14_AccountFailureIsolated ==
    /\ pc \in PipelinePcs \cup {"walletReturned", "walletThrew"} =>
        /\ tokenAccountsClosed = Cardinality(ClosesOf(W))
        /\ rentRecovered = SumClosed(ConfirmedOf(W), Len(ConfirmedOf(W)))
    /\ pc = "walletThrew" => ~AtEligibleAccount

\* The amounts a transaction must not be submitted for: greater than zero
\* and below the threshold.
BelowFloor(lamports) == lamports > 0 /\ lamports < MinimumRentThreshold

\* C15: no close and no sweep transaction is submitted for an amount
\* greater than zero and below the minimum threshold: none is about to be
\* sent, none has been confirmed, and canCloseAccount answers no for such a
\* balance.
C15_LamportFloor ==
    /\ pc \in {"closeSend", "sweepSend"} => ~BelowFloor(transaction.lamports)
    /\ \A j \in 1 .. Len(confirmed) :
        confirmed[j].tx.kind \in {"close", "transfer"} =>
            ~BelowFloor(confirmed[j].tx.lamports)
    /\ decision # NoDecision /\ BelowFloor(decision.balance) =>
        ~decision.eligible

(***************************************************************************)
(* Properties of getTokenAccounts (SpecDisc), continued                    *)
(***************************************************************************)

\* The three methods, each as its Token query and its Token-2022 query
\* (method 2 has the Token query only).
Strategies ==
    {<<"m1Token", "m1Token2022">>, <<"m2Token", "m2Token">>,
     <<"m3Token", "m3Token2022">>}

\* The ids the queries of method m gave that were made and returned.
ReturnedIds(q, m) == QueryIds(q, m[1]) \cup QueryIds(q, m[2])

\* C16 as stated: every method is executed whatever the others did; a
\* method that failed contributes no record (every returned id comes from a
\* method that did not fail), and every record of a method that did not
\* fail is in the result.
C16_FailedStrategyContributesNothing ==
    dAccounts # NoAccounts =>
        \A m \in Strategies :
            /\ m[1] \in QueriesMade(dQuery)
            /\ MethodFailed(dQuery, m[1], m[2]) =>
                RecordIds(dAccounts) \subseteq
                    UNION {MethodIds(dQuery, o[1], o[2]) :
                                o \in Strategies \ {m}}
            /\ ~MethodFailed(dQuery, m[1], m[2]) =>
                MethodIds(dQuery, m[1], m[2]) \subseteq RecordIds(dAccounts)

\* C16 amended: every method is executed whatever the others did; a method
\* whose first query threw contributes no record; a method whose
\* Token-2022 query threw after its Token query returned still contributes
\* the records of the Token query; every record of a query that returned
\* is in the result, and nothing else is.
C16_FailedStrategyKeepsReturnedQueries ==
    dAccounts # NoAccounts =>
        /\ \A m \in Strategies :
            /\ m[1] \in QueriesMade(dQuery)
            /\ QueryThrew(dQuery[m[1]]) =>
                RecordIds(dAccounts) \subseteq
                    UNION {ReturnedIds(dQuery, o) : o \in Strategies \ {m}}
            /\ ReturnedIds(dQuery, m) \subseteq RecordIds(dAccounts)
        /\ RecordIds(dAccounts) \subseteq
                UNION {ReturnedIds(dQuery, m) : m \in Strategies}

\* Method 1 failed at its Token-2022 query after its Token query gave A,
\* methods 2 and 3 failed at their first query: the result is A.
C16_Witness ==
    /\ dAccounts # NoAccounts
    /\ ~QueryThrew(dQuery["m1Token"])
    /\ ValidIds(dQuery["m1Token"]) = {"A"}
    /\ QueryThrew(dQuery["m1Token2022"])
    /\ QueryThrew(dQuery["m2Token"])
    /\ QueryThrew(dQuery["m3Token"])
    /\ RecordIds(dAccounts) = {"A"}

\* Every query of the run threw: every method failed at its first query.
AllErrored(q) == \A x \in QueriesMade(q) : QueryThrew(q[x])

\* The queries of a wallet without token accounts: each returns no item.
EmptyWallet ==
    QueryResults(Returned(<<>>), Returned(<<>>), Returned(<<>>),
                 Returned(<<>>), Returned(<<>>))

\* C17: when every query of every method errors, the caller of
\* getTokenAccounts is told so: what it gets is not what it gets for a
\* wallet that has no token accounts.
C17_TotalFailureReported ==
    (dAccounts # NoAccounts /\ AllErrored(dQuery)) =>
        dAccounts # GetTokenAccounts(EmptyWallet)

\* C18: every method queries both programs, the query for one program
\* being made whether or not the method's query for the other program
\* threw; so what a Token-2022 query answers is in the result.
C18_BothVariantsQueried ==
    dAccounts # NoAccounts =>
        /\ \A n \in 1 .. 3, program \in {"Token", "Token2022"} :
            \E x \in QueriesMade(dQuery) :
                QueryMethod(x) = n /\ QueryProgram(x) = program
        /\ \A x \in Queries :
            QueryProgram(x) = "Token2022" /\ ~QueryThrew(dQuery[x]) =>
                ValidIds(dQuery[x]) \subseteq RecordIds(dAccounts)

(***************************************************************************)
(* Properties of processAllWallets, continued                              *)
(***************************************************************************)

\* The steps at which a transaction of the running wallet exists: built and
\* waiting for its blockhash, or handed to sendAndConfirmTransaction.
TransactionPcs ==
    {"closeGetLatestBlockhash", "closeSend", "burnGetLatestBlockhash",
     "burnSend", "sweepGetLatestBlockhash", "sweepSend"}

SendPcs == {"closeSend", "burnSend", "sweepSend"}

\* The place of an account id in the order the ledger lists accounts.
PlaceOf(id) == CHOOSE j \in 1 .. Len(IdOrder) : IdOrder[j] = id

\* C19: the submissions of a run are serialized.  Wallets are processed one
\* at a time in store order: while a wallet is processed every earlier
\* wallet has ended and no later wallet has begun or has a transaction, and
\* the confirmed transactions are in store order of their wallets.  Within
\* a wallet the accounts are handled one at a time in order: its closes are
\* confirmed in the order of its accounts, and so are its burns.  At most
\* one transaction exists at a time: one exists only within the step that
\* built it, it is the one being sent at a send step, and it is gone
\* (confirmed or failed) before the next account, phase or wallet begins.
C19_Serialized ==
    /\ \A a, b \in 1 .. Len(confirmed) :
        a < b =>
            /\ confirmed[a].wallet <= confirmed[b].wallet
            /\ (/\ confirmed[a].wallet = confirmed[b].wallet
                /\ confirmed[a].tx.kind = confirmed[b].tx.kind) =>
                    /\ confirmed[a].tx.kind # "transfer"
                    /\ PlaceOf(confirmed[a].tx.account)
                            < PlaceOf(confirmed[b].tx.account)
    /\ transaction # NoTx <=> pc \in TransactionPcs
    /\ pc \in SendPcs /\ transaction.kind # "transfer" =>
        transaction.account = tokenAccounts[accountIndex].id
    /\ pc \in PipelinePcs \cup {"walletReturned", "walletThrew"} =>
        \A w \in WalletIds :
            /\ w < W => walletLog[w].pipeline # "pending"
            /\ w > W =>
                /\ walletLog[w].pipeline = "pending"
                /\ ConfirmedOf(w) = <<>>
            /\ w = W /\ pc # "walletThrew" =>
                walletLog[w].pipeline = "pending"

\* The second wallet's close is being sent after two transactions of the
\* first wallet were confirmed.
C19_Witness ==
    /\ pc = "closeSend"
    /\ W = 2
    /\ Len(ConfirmedOf(1)) = 2
    /\ Len(confirmed) = 2

\* The steps of a run of processAllWallets past its fee payer test.
ProcessAllPcs ==
    PipelinePcs \cup {"loop", "walletReturned", "walletThrew", "returned"}

\* The wallet an event at place j of the run belongs to, when every wallet
\* has two events.
WalletOfEvent(j) == (j + 1) \div 2

\* C20: progressCallback returning normally, a run over n wallets emits for
\* every wallet exactly two events, one before and one after its pipeline,
\* each with current = i + 1, total = n and the public key of the wallet:
\* the first has status 'Processing wallet...', the second the collected
\* amount of a wallet counted successful or 'Failed to process' for one
\* counted failed.  The events of a wallet precede those of the next:
\* while wallet i is processed 2i + 1 events exist, after it 2i + 2.
C20_TwoEventsPerWallet ==
    /\ pc \in PipelinePcs \cup {"walletReturned", "walletThrew"} =>
        Len(events) = 2 * walletIndex + 1
    /\ pc = "loop" => Len(events) = 2 * walletIndex
    /\ pc = "returned" => Len(events) = 2 * Len(wallets)
    /\ pc \in {"idle", "rejected"} => events = <<>>
    /\ pc \in ProcessAllPcs =>
        \A j \in 1 .. Len(events) :
            LET w == WalletOfEvent(j)
            IN  /\ w \in WalletIds
                /\ events[j].current = w
                /\ events[j].total = Len(wallets)
                /\ events[j].wallet = wallets[w].publicKey
                /\ j = 2 * w - 1 =>
                    events[j].status = "Processing wallet..."
                /\ j = 2 * w =>
                    IF walletLog[w].counted = "successful"
                    THEN events[j].status =
                            <<"Collected",
                              ToFixed4(walletLog[w].totalRecovered), "SOL">>
                    ELSE /\ walletLog[w].counted = "failed"
                         /\ events[j].status = "Failed to process"

\* A run over two wallets returned with four events: the first wallet
\* failed, the second collected 2,039,280 lamports.
C20_Witness ==
    /\ pc = "returned"
    /\ Len(events) = 4
    /\ walletLog[1].counted = "failed"
    /\ walletLog[2].counted = "successful"
    /\ walletLog[2].totalRecovered = 2039280

\* C21: in processAllWallets a pacing delay follows every wallet that
\* has a successor, whether the wallet was counted successful or failed,
\* and no delay follows the last wallet.
C21_PacingDelay ==
    \A w \in WalletIds :
        walletLog[w].counted # "none" =>
            /\ w < Len(wallets) => walletLog[w].slept > 0
            /\ w = Len(wallets) => walletLog[w].slept = 0

C23_EmptyRunAborted ==
    Len(wallets) = 0 => pc \notin {"loop", "returned"}

(***************************************************************************)
(* Properties of loadWalletsFromFile (SpecLoad), continued                 *)
(***************************************************************************)

\* The keys of the file of the running load (the lines classified as
\* secrets), and whether one of them does not decode.
LoadKeys == ParseFile(load.file).privateKeys

SomeKeyInvalid(keys) ==
    \E k \in 1 .. Len(keys) : PublicKeyOf(keys[k]) = Invalid

\* C24: a load throws 'No valid private keys found in file' exactly when no
\* line of the file is classified as a secret, throws 'Invalid private
\* key' exactly when there are such lines and one of them does not decode,
\* and returns otherwise.  A load that throws without clearExisting (the
\* load-wallets handler never passes it) leaves the store as the files
\* before it left it, and the next file of the call can be loaded.
C24_LoadErrors ==
    load # NoLoad =>
        /\ Len(LoadKeys) = 0 <=>
            (load.status = "throw" /\ load.error = "NoValidPrivateKeys")
        /\ (Len(LoadKeys) > 0 /\ SomeKeyInvalid(LoadKeys)) <=>
            (load.status = "throw" /\ load.error = "InvalidPrivateKey")
        /\ load.status \in {"throw", "return"}
        /\ (load.status = "throw" /\ ~load.clearExisting) =>
            wallets = load.before
        /\ ENABLED LoadDone

\* The second file of a call has a line that does not decode: the load
\* threw and the wallet of the first file is still in the store.
C24_Witness ==
    /\ load # NoLoad
    /\ load.status = "throw"
    /\ load.error = "InvalidPrivateKey"
    /\ ~load.clearExisting
    /\ Len(load.before) = 1
    /\ wallets = load.before

\* A file of the paired format built from one (secret, address) pair: the
\* header, the secret, the address.
PairedFile(file) ==
    /\ Len(file) = 3
    /\ file[1].text = "PRIVATE KEYS / ADDRESS:"
    /\ file[2] \in SecretLines
    /\ file[3] \in AddressLines

\* C25: every record of the store has the public key derived from its
\* secret.  A load of a paired file whose secret decodes, into an empty
\* store, returns whether or not the provided address is the derived one:
\* the store is the one wallet of the secret with the derived public key
\* (which is the provided address when the pair matches), and a mismatch
\* gives one warning and nothing else.
C25_ParseRoundTrip ==
    /\ \A k \in 1 .. Len(wallets) :
        wallets[k].publicKey = PublicKeyOf(wallets[k].privateKey)
    /\ (/\ load # NoLoad
        /\ PairedFile(load.file)
        /\ PublicKeyOf(load.file[2].text) # Invalid
        /\ load.before = <<>>) =>
            LET secret == load.file[2].text
                address == load.file[3].text
            IN  /\ load.status = "return"
                /\ Len(wallets) = 1
                /\ wallets[1].privateKey = secret
                /\ wallets[1].publicKey = PublicKeyOf(secret)
                /\ load.returned = wallets
                /\ address = PublicKeyOf(secret) =>
                    /\ wallets[1].publicKey = address
                    /\ load.warnings = <<>>
                /\ address # PublicKeyOf(secret) =>
                    /\ wallets[1].publicKey # address
                    /\ load.warnings =
                        <<[providedAddress |-> address,
                           publicKey |-> PublicKeyOf(secret)]>>

\* The pair (s1, P2) was loaded: the wallet has the public key P1.
C25_Witness ==
    /\ load # NoLoad
    /\ PairedFile(load.file)
    /\ load.file[2].text = "s1"
    /\ load.file[3].text = "P2"
    /\ load.before = <<>>
    /\ load.status = "return"
    /\ wallets[1].publicKey = "P1"
    /\ Len(load.warnings) = 1

(***************************************************************************)
(* Properties of the store under processAllWallets and analyzeWallets      *)
(***************************************************************************)

\* C26: once processAllWallets has processed a wallet (no remote call
\* having failed, so that discovery saw every account of it), the record
\* of the wallet in the store has rentAmount = the sum of the lamports of
\* its eligible token accounts and canClose = (rentAmount > 0).
C26_DiscoveryWrittenBack ==
    \A w \in WalletIds :
        (walletLog[w].counted = "successful" /\ ~remoteFailed) =>
            LET held == walletLog[w].held.accounts IN
            /\ wallets[w].rentAmount = SumLamports(held, Len(held))
            /\ wallets[w].canClose = (wallets[w].rentAmount > 0)

\* C27: in every state of the store reached by file loads and discovery
\* write-backs, a record with rentAmount > 0 has canClose = TRUE; and
\* when a load has just returned, every record of the store is fresh:
\* rentAmount = 0 and canClose = FALSE.
C27_RentImpliesCanClose ==
    /\ \A n \in 1 .. Len(wallets) :
        wallets[n].rentAmount > 0 => wallets[n].canClose = TRUE
    /\ (load # NoLoad /\ load.status = "return") =>
        \A n \in 1 .. Len(wallets) :
            wallets[n].rentAmount = 0 /\ wallets[n].canClose = FALSE

\* A discovery wrote rent back for one of two loaded wallets.
C27_Witness ==
    /\ load = NoLoad
    /\ Len(wallets) = 2
    /\ \E n, m \in 1 .. 2 :
        /\ wallets[n].rentAmount = 2039280 /\ wallets[n].canClose = TRUE
        /\ wallets[m].rentAmount = 0 /\ wallets[m].canClose = FALSE

\* C28: balance, rentAmount and canClose of a record are changed only by
\* the discovery phase: when a load without clearing has returned, every
\* wallet that was in the store before the load is still in it, with the
\* balance, rentAmount and canClose it had; and a load that throws
\* without clearing leaves the store as it was.
C28_LoadKeepsDiscovery ==
    /\ (load # NoLoad /\ load.status = "return" /\ ~load.clearExisting) =>
        \A n \in 1 .. Len(load.before) :
            \E m \in 1 .. Len(wallets) :
                /\ wallets[m].publicKey = load.before[n].publicKey
                /\ wallets[m].balance = load.before[n].balance
                /\ wallets[m].rentAmount = load.before[n].rentAmount
                /\ wallets[m].canClose = load.before[n].canClose
    /\ (load # NoLoad /\ load.status = "throw" /\ ~load.clearExisting) =>
        wallets = load.before

\* C30: getWallets returns the records in load order and indices are
\* stable: when a load without clearing has returned, the array it
\* returns is the store, every wallet that was in the store before the
\* load is at the index it had, and the wallets added by the load follow,
\* each of them a secret of the file, in the order in which their secrets
\* first appear in the file.
C30_IndicesStable ==
    (load # NoLoad /\ load.status = "return" /\ ~load.clearExisting) =>
        LET privateKeys == ParseFile(load.file).privateKeys
            old == Len(load.before)
        IN  /\ load.returned = wallets
            /\ Len(wallets) >= old
            /\ \A n \in 1 .. old :
                /\ wallets[n].publicKey = load.before[n].publicKey
                /\ wallets[n].privateKey = load.before[n].privateKey
            /\ \A a \in old + 1 .. Len(wallets) :
                /\ IndexOf(privateKeys, wallets[a].privateKey) >= 0
                /\ \A b \in a + 1 .. Len(wallets) :
                    IndexOf(privateKeys, wallets[a].privateKey)
                        < IndexOf(privateKeys, wallets[b].privateKey)

\* A load without clearing has added a wallet behind one that was there.
C30_Witness ==
    /\ load # NoLoad
    /\ load.status = "return"
    /\ ~load.clearExisting
    /\ Len(load.before) = 1
    /\ Len(wallets) = 2
    /\ wallets[1].publicKey = load.before[1].publicKey

(***************************************************************************)
(* Properties of the handlers of main.ts (SpecShell)                       *)
(***************************************************************************)

\* C29: the fee payer of a run is the one set when the run started: the
\* run starts with the keypair of the key stored at that moment, the
\* collector's keypair does not change while the run is in progress,
\* whatever set-fee-payer and set-rpc-url store meanwhile, and every
\* transaction the run builds or has confirmed has that keypair as its
\* fee payer.
C29_FeePayerFixedForRun ==
    /\ [](pc \in ProcessAllPcs =>
            /\ feePayerKeypair # NoKeypair
            /\ transaction # NoTx =>
                transaction.feePayer = feePayerKeypair
            /\ \A j \in 1 .. Len(confirmed) :
                confirmed[j].tx.feePayer = feePayerKeypair)
    /\ [][(pc = "idle" /\ pc' = "loop")
            => (feePayerKeypair' = KeypairOf(storedFeePayerKey))]_vars
    /\ [][(pc \in ProcessAllPcs)
            => (feePayerKeypair' = feePayerKeypair)]_vars

\* The run of fee payer F is about to send a transaction, has confirmed
\* one before, and the shell has stored the key g and another endpoint
\* since the run started.
C29_Witness ==
    /\ pc \in SendPcs
    /\ feePayerKeypair = "F"
    /\ storedFeePayerKey = "g"
    /\ storedRpcUrl # connection
    /\ transaction.feePayer = "F"
    /\ Len(confirmed) > 0

\* C31: the count of new wallets the load-wallets handler reports for a
\* file (loaded without clearing, as the handler does) is the number of
\* wallets the load added: the size of the store after the call minus
\* its size before the call.
C31_NewWalletsCount ==
    (load # NoLoad /\ ~load.clearExisting) =>
        TotalNewWallets(load) = Len(wallets) - Len(load.before)

\* C32: a remote call of the pipeline that is rate limited once and would
\* answer at the next attempt is recovered by the retry policy: no wallet
\* goes to the catch block of processAllWallets because of such a call,
\* and no step of the pipeline (the close of an account, the sweep)
\* receives its error.
C32_RateLimitRecovered ==
    /\ pc = "walletThrew" => lastThrow # "rateLimitedOnce"
    /\ pc \in PipelinePcs => lastThrow # "rateLimitedOnce"

\* The texts of the lines of a file whose length is between 80 and 90, in
\* file order.
RECURSIVE SecretLengthTexts(_)
SecretLengthTexts(file) ==
    IF file = <<>> THEN <<>>
    ELSE (IF Head(file).len >= 80 /\ Head(file).len <= 90
          THEN <<Head(file).text>> ELSE <<>>)
            \o SecretLengthTexts(Tail(file))

NoHeaderLine(file) ==
    \A n \in 1 .. Len(file) : file[n].text \notin SectionHeaders

\* C33: for a file none of whose lines is a section header, the candidate
\* secrets are the lines of length 80 to 90: the load throws 'No valid
\* private keys' exactly when there is no such line, throws 'Invalid
\* private key' exactly when one of them does not decode, and otherwise
\* returns with the wallet of every such line in the store and no wallet
\* added for any other line.
C33_SimpleFormat ==
    (load # NoLoad /\ NoHeaderLine(load.file)) =>
        LET candidates == SecretLengthTexts(load.file) IN
        /\ Len(candidates) = 0 <=>
            (load.status = "throw" /\ load.error = "NoValidPrivateKeys")
        /\ (Len(candidates) > 0 /\ SomeKeyInvalid(candidates)) <=>
            (load.status = "throw" /\ load.error = "InvalidPrivateKey")
        /\ load.status = "return" =>
            /\ \A c \in 1 .. Len(candidates) :
                \E n \in 1 .. Len(wallets) :
                    wallets[n].publicKey = PublicKeyOf(candidates[c])
            /\ \A n \in 1 .. Len(wallets) :
                \/ \E c \in 1 .. Len(candidates) :
                    wallets[n].privateKey = candidates[c]
                \/ \E b \in 1 .. Len(load.before) :
                    load.before[b].privateKey = wallets[n].privateKey

(***************************************************************************)
(* Properties of retryWithBackoff (SpecRetry), continued                   *)
(***************************************************************************)

\* C34: for every script of the wrapped call, retryWithBackoff with the
\* default parameters ends (a call that has not started can be taken), has
\* invoked the call at most MaxRetries + 1 = 4 times, has slept once
\* before every invocation but the first and never after the last one,
\* the sleep before the (k+1)-th retry being BaseDelay * 2^k (1000, 2000,
\* 4000), and ends with the value of its last invocation or with an error.
C34_BoundedRetries ==
    /\ rResult = NoResult => ENABLED RetryCall
    /\ rResult # NoResult =>
        /\ rResult.calls >= 1
        /\ rResult.calls <= 4
        /\ rResult.calls <= MaxRetries + 1
        /\ Len(rResult.delays) = rResult.calls - 1
        /\ \A n \in 1 .. Len(rResult.delays) :
            /\ rResult.delays[n] = BaseDelay * (2 ^ (n - 1))
            /\ rResult.delays[n] = <<1000, 2000, 4000>>[n]
        /\ rResult.status \in {"return", "throw"}
        /\ rResult.status = "return" =>
            /\ rFn[rResult.calls].ok
            /\ rResult.value = rFn[rResult.calls].val
        /\ rResult.status = "throw" => rResult.error # NoError

\* Every invocation is rate limited: four invocations, three sleeps, none
\* after the last failure.
C34_Witness ==
    /\ rResult # NoResult
    /\ RateLimitedUpTo(rFn, MaxRetries + 1)
    /\ rResult.calls = 4
    /\ rResult.delays = <<1000, 2000, 4000>>
    /\ rResult.status = "throw"

(***************************************************************************)
(* Properties of processAllWallets, continued                              *)
(***************************************************************************)

\* C35: when processWalletCompletely returns, tokenAccountsClosed is the
\* number of confirmed close transactions of the wallet and rentRecovered
\* the sum of their lamports; the totalRecovered of every wallet counted
\* successful is its rentRecovered plus its solTransferred; and the
\* running total, and at the return the summary's total, is the sum of
\* totalRecovered over the wallets counted in successfulWallets.
C35_ResultAccounting ==
    /\ pc = "walletReturned" =>
        /\ tokenAccountsClosed = Cardinality(ClosesOf(W))
        /\ rentRecovered = SumClosed(ConfirmedOf(W), Len(ConfirmedOf(W)))
    /\ \A w \in CountedAs("successful") :
        walletLog[w].totalRecovered =
            SumClosed(ConfirmedOf(w), Len(ConfirmedOf(w)))
                + walletLog[w].solTransferred
    /\ pc \in ProcessAllPcs =>
        /\ totalRecovered = SumRecovered(CountedAs("successful"))
        /\ successfulWallets = Cardinality(CountedAs("successful"))
    /\ pc = "returned" =>
        summary.totalRentCollected = SumRecovered(CountedAs("successful"))

\* A run has returned in which a wallet closed an account and swept its
\* native balance.
C35_Witness ==
    /\ pc = "returned"
    /\ \E w \in WalletIds :
        /\ walletLog[w].counted = "successful"
        /\ ClosesOf(w) # {}
        /\ walletLog[w].solTransferred > 0
        /\ walletLog[w].totalRecovered > walletLog[w].solTransferred
    /\ summary.totalRentCollected > 0

(***************************************************************************)
(* Properties of loadWalletsFromFile (SpecLoad), continued                 *)
(***************************************************************************)

\* C36: a load that throws (no valid private keys, or a key that does not
\* decode) leaves the store exactly as it was before the call, with and
\* without clearExisting.
C36_FailedLoadKeepsStore ==
    (load # NoLoad /\ load.status = "throw") => wallets = load.before

(***************************************************************************)
(* Properties of processAllWallets, continued: the totals                  *)
(***************************************************************************)

\* C37: at the return of processAllWallets the total of the summary is
\* the lamports the confirmed close and sweep transactions of the run
\* have moved to the fee payer, those of a wallet whose pipeline threw
\* after closes of it were confirmed included.
C37_TotalMatchesLedger ==
    pc = "returned" => summary.totalRentCollected = feePayerReceived

(***************************************************************************)
(* Properties of processAllWallets, continued: the counters                *)
(***************************************************************************)

\* C38: each wallet is counted exactly once, whatever the pipeline and the
\* progress callback do: at every wallet boundary of processAllWallets,
\* and when it has returned, successfulWallets + failedWallets is the
\* number of wallets handled so far, a wallet whose iteration has ended in
\* the catch block being counted as failed only.
C38_CountedOnce ==
    pc \in {"loop", "returned"} =>
        successfulWallets + failedWallets = walletIndex

(***************************************************************************)
(* Properties of the shell, continued: requests during a run               *)
(***************************************************************************)

\* C39: at most one pipeline is active at a time: while a run of
\* processAllWallets is in progress no other processAllWallets or
\* processWalletCompletely is executing, and rentCollector is still the
\* collector of the run.
C39_OnePipelineAtATime ==
    pc \in PipelinePcs => (otherRun = NoRun /\ rentCollector = "this")
====
